---- MODULE Spec2Model ----
(***************************************************************************)
(* A model of the EDINET client (jerryjuiceme/async-edinet-client):        *)
(*   - EdinetDocAPIFetcher.get_document / _fetch_doc together with         *)
(*     utils.process_zip_file (the document flow),                         *)
(*   - EdinetDoclistAPIFetcher.fetch_date_interval_doc_list / _fetch_list  *)
(*     / _filter_docs (the list flow),                                     *)
(*   - EdinetDoclistAPIFetcher.fetch_single_doc_list (the single-date      *)
(*     flow),                                                              *)
(*   - DocProcessor.process_raw_csv_data over the rows read_csv_file       *)
(*     delivers (the classification flow),                                 *)
(*   - GoogleTranslator.translate / BypassTranslator.translate (the        *)
(*     translator flow),                                                   *)
(*   - utils.read_csv_file with detect_encoding (the reader flow), and     *)
(*   - several top-level calls running concurrently on one fetcher: the    *)
(*     clients _get_client builds for them, and their interleaved steps.   *)
(*                                                                         *)
(* One behaviour constructs one object (a fetcher, a DocProcessor, a       *)
(* translator, or the Path of a file) and runs one call on it, or runs     *)
(* concurrent calls on a fetcher.  A coroutine is cut at its suspension    *)
(* points (the awaits); everything a coroutine does between two awaits is  *)
(* one action.                                                             *)
(* The document flow sees a file of the archive by what classification     *)
(* makes of its rows; the classification flow goes through the rows.       *)
(*                                                                         *)
(* The result DTOs are modelled by the fields the code assigns and reads   *)
(* (status, message, counts, entries).  The doc_type_code field that       *)
(* schemas/doc.py and the signature of utils.process_zip_file still carry  *)
(* is a pure pass-through value; get_document no longer supplies it, and   *)
(* the model follows the control flow of get_document and of the body of   *)
(* process_zip_file.                                                       *)
(***************************************************************************)
EXTENDS Integers, Sequences, FiniteSets, TLC

\* ------------------------------------------------------------------ bounds
MaxAttempts == 2    \* largest configured retry_attempts explored
MaxFiles == 2       \* largest number of files in a downloaded archive
MaxDays == 2        \* calendar days are numbered 1..MaxDays
MaxDocs == 2        \* largest number of entries in one listing response
MaxRows == 2        \* largest number of rows in the files of one document
MaxTasks == 2       \* largest number of concurrent tasks followed one by one
MaxCalls == 16      \* largest number of concurrent calls counted

\* --------------------------------------------------------------- constants
SUCCESS == 200
BAD_REQUEST == 400
AUTH_ERROR == 401
NOT_FOUND == 404
RATE_LIMIT_ERROR == 429
SERVER_ERROR == 500

\* Python's None where an integer is expected (EdinetAPIError.status_code).
NoStatus == -1
\* Python's None where a string is expected.
NoneV == "None"

RETRY_STATUS_CODES == {429, 500, 502, 503, 504}

\* The status codes the modelled server may answer with.
HttpStatuses == {200, 204, 302, 400, 401, 403, 404, 429, 500, 501, 503}

\* client.get either yields a response or raises one of these httpx errors.
\* httpx.ProtocolError is an httpx.HTTPError that is neither a NetworkError
\* nor a TimeoutException.
TransportErrors ==
    {"httpx.NetworkError", "httpx.TimeoutException", "httpx.ProtocolError"}

\* ------------------------------------------------------ exception classes
EdinetErrorClasses ==
    {"EdinetAPIError", "EdinetConnectionError", "EdinetAPIRateLimitError",
     "EdinetAPIAuthError", "EdinetClientError", "EdinetServerError"}

\* BaseException subclasses that are not Exception subclasses.
InterruptClasses == {"KeyboardInterrupt", "CancelledError"}

IsException(cls) == cls \notin InterruptClasses

Exc(cls, msg, st) == [cls |-> cls, message |-> msg, status_code |-> st]

NoExc == Exc("none", NoneV, NoStatus)

\* ---------------------------------------------------------- stamina retry
\* The `on` tuple handed to stamina.retry_context, the same in both fetchers.
RetryOnAll ==
    {"httpx.NetworkError", "httpx.TimeoutException", "EdinetServerError",
     "EdinetAPIRateLimitError", "EdinetClientError", "EdinetAPIAuthError",
     "EdinetAPIError"}

RetryOn ==
    {"httpx.NetworkError", "httpx.TimeoutException", "EdinetServerError",
     "EdinetAPIRateLimitError"}

ShouldRetryNoCap(cls, made, attempts, budgetLeft) ==
    cls \in RetryOn /\ budgetLeft

\* stamina retries an attempt that raised a class of `on` while fewer than
\* `attempts` attempts were made and the `timeout` budget is not used up;
\* otherwise the exception leaves the retry context.
ShouldRetry(cls, made, attempts, budgetLeft) ==
    cls \in RetryOn /\ made < attempts /\ budgetLeft


\* ------------------------------------------------------------------- state
VARIABLES
    \* configuration of the fetcher and arguments of the call
    constructed,      \* the object the calls are made on
    retry_attempts,   \* self.retry_attempts of the fetcher
    raise_on_error,   \* get_document(raise_on_error=...)
    unlinkFails,      \* the platform refuses tmp_path.unlink() (file in use)
    \* get_document / _fetch_doc / process_zip_file
    dpc,              \* position of the get_document coroutine
    docRequests,      \* client.get calls issued by this _fetch_doc call
    lastResp,         \* what the last client.get produced
    lastAttempt,      \* how the last attempt body ended
    budgetLeft,       \* stamina: the retry_timeout budget was not yet used up
    archive,          \* the downloaded payload, seen as an archive
    readPaths,        \* the files a read_csv_file call was started for
    readResults,          \* per read_csv_file task of _read_files: its result
    rawList,          \* raw_csv_data_list of process_zip_file
    tmpZip,           \* the NamedTemporaryFile exists on disk
    tmpDir,           \* the TemporaryDirectory exists on disk
    everTmpZip,       \* this call created its temporary zip file
    orphanExtract,    \* a to_thread(_sync_extract_zip) worker outlived its await
    interrupted,      \* the BaseException that hit the call, or "none"
    dout,             \* "none", "return" or "raise"
    dexc,             \* the exception get_document raised
    dres              \* the ExtractDocMessage get_document returned

docVars == <<raise_on_error, unlinkFails, dpc, docRequests, lastResp,
             lastAttempt, budgetLeft, archive, readPaths, readResults, rawList, tmpZip,
             tmpDir, everTmpZip, orphanExtract, interrupted, dout, dexc, dres>>

\* --------------------------------------------------------- server answers
Resp(tr, st, body) == [transport |-> tr, status |-> st, body |-> body]

NoResp == Resp("none", 0, "none")

\* A document request is answered by a transport failure, by a non-200
\* status, or by 200 with a body that parses as JSON or with other bytes.
DocResponses ==
    {Resp(t, 0, "none") : t \in TransportErrors}
    \cup {Resp("ok", st, "none") : st \in HttpStatuses \ {SUCCESS}}
    \cup {Resp("ok", SUCCESS, b) : b \in {"json", "bytes"}}

\* --------------------------------------------------------------- _fetch_doc
Returned(content) == [kind |-> "return", content |-> content, exc |-> NoExc]

Raised(exc) == [kind |-> "raise", content |-> "none", exc |-> exc]

NoAttempt == [kind |-> "none", content |-> "none", exc |-> NoExc]

FetchDocAttemptStrict(resp) ==
    IF resp.transport # "ok"
    THEN Raised(Exc(resp.transport, "transport failure", NoStatus))
    ELSE LET st == resp.status IN
         IF st = SUCCESS
         THEN Returned(resp.body)
         ELSE IF st = BAD_REQUEST
         THEN Raised(Exc("EdinetClientError", "Bad request", st))
         ELSE IF st = NOT_FOUND
         THEN Raised(Exc("EdinetClientError", "Document not found", st))
         ELSE IF st = AUTH_ERROR
         THEN Raised(Exc("EdinetAPIAuthError", "Authentication failed", st))
         ELSE IF st = RATE_LIMIT_ERROR
         THEN Raised(Exc("EdinetAPIRateLimitError", "API rate limit exceeded", st))
         ELSE IF st > SERVER_ERROR
         THEN Raised(Exc("EdinetServerError", "Server error", st))
         ELSE Raised(Exc("EdinetAPIError", "Unknown status", NoStatus))

\* The body of one attempt of _fetch_doc: client.get, then the if/elif chain
\* over the status code.  With status 200 the parsed JSON is returned when
\* response.json() succeeds and response.content otherwise.
FetchDocAttempt(resp) ==
    IF resp.transport # "ok"
    THEN Raised(Exc(resp.transport, "transport failure", NoStatus))
    ELSE LET st == resp.status IN
         IF st = SUCCESS
         THEN Returned(resp.body)
         ELSE IF st = BAD_REQUEST
         THEN Raised(Exc("EdinetClientError", "Bad request", st))
         ELSE IF st = NOT_FOUND
         THEN Raised(Exc("EdinetClientError", "Document not found", st))
         ELSE IF st = AUTH_ERROR
         THEN Raised(Exc("EdinetAPIAuthError", "Authentication failed", st))
         ELSE IF st = RATE_LIMIT_ERROR
         THEN Raised(Exc("EdinetAPIRateLimitError", "API rate limit exceeded", st))
         ELSE IF st >= SERVER_ERROR
         THEN Raised(Exc("EdinetServerError", "Server error", st))
         ELSE Raised(Exc("EdinetAPIError", "Unknown status", NoStatus))

\* ------------------------------------------------------------ the archive
\* A file of the archive: a data file that reads and classifies, a data file
\* no candidate encoding reads (read_csv_file gives None), a data file whose
\* read raises, a data file holding a row that fails DocResult validation,
\* an auditor report (jpaud...), a file under __MACOSX, or a file that is no
\* .csv file.
FileKinds ==
    {"data", "unreadable", "readerr", "badrow", "jpaud", "macosx", "noncsv"}

FileSeqs == UNION {[1..n -> FileKinds] : n \in 0..MaxFiles}

Archive(zip, files) == [zip |-> zip, files |-> files]

NoArchive == Archive("none", <<>>)

\* The payload is no zip archive ("bad": zipfile.BadZipFile), cannot be
\* extracted for another reason ("err"), or extracts to `files`.
Archives ==
    {Archive("bad", <<>>), Archive("err", <<>>)}
    \cup {Archive("ok", fs) : fs \in FileSeqs}

\* What zipfile would make of the body of a response: the bytes of a 200
\* response that are no JSON are some archive, valid or not; a JSON text is
\* no zip archive; no other response has a body that is looked at.
DocPayloads(resp) ==
    IF resp.transport = "ok" /\ resp.status = SUCCESS
    THEN IF resp.body = "bytes" THEN Archives ELSE {Archive("bad", <<>>)}
    ELSE {NoArchive}

\* Indices, in discovery order, of the files from position i on whose kind
\* is not in `skipped`.
RECURSIVE SelectIdx(_, _, _)
SelectIdx(files, i, skipped) ==
    IF i > Len(files) THEN <<>>
    ELSE (IF files[i] \notin skipped THEN <<i>> ELSE <<>>)
         \o SelectIdx(files, i + 1, skipped)

\* _find_csv_paths: the *.csv files that are not under a __MACOSX directory.
FindCsvPaths(files) ==
    SelectIdx(files, 1, {"macosx", "noncsv"})

ValidCsvPathsWithAuditor(files) == FindCsvPaths(files)

\* valid_csv_paths: the found files whose name does not start with "jpaud".
ValidCsvPaths(files) ==
    SelectIdx(files, 1, {"macosx", "noncsv", "jpaud"})

ReadTasksWithAuditor(files) == FindCsvPaths(files)

\* _read_files: a read_csv_file task is created for every found file whose
\* lower-cased name does not start with "jpaud".
ReadTasks(files) ==
    SelectIdx(files, 1, {"macosx", "noncsv", "jpaud"})

\* raw_csv_data_list: the files whose read gave records (neither None nor an
\* exception), as {"filename", "data"} pairs in the order of valid_csv_paths.
RECURSIVE RawCsvDataKeepsUnreadable(_, _)
RawCsvDataKeepsUnreadable(files, paths) ==
    IF paths = <<>> THEN <<>>
    ELSE LET i == Head(paths) IN
         (IF files[i] \in {"data", "badrow", "unreadable"}
          THEN <<[filename |-> i, data |-> files[i]]>> ELSE <<>>)
         \o RawCsvDataKeepsUnreadable(files, Tail(paths))

RECURSIVE RawCsvData(_, _)
RawCsvData(files, paths) ==
    IF paths = <<>> THEN <<>>
    ELSE LET i == Head(paths) IN
         (IF files[i] \in {"data", "badrow"}
          THEN <<[filename |-> i, data |-> files[i]]>> ELSE <<>>)
         \o RawCsvData(files, Tail(paths))

\* The result slot of a read_csv_file task that has not completed.
Pending == [file |-> 0, data |-> "pending"]

\* What the read_csv_file task for file i of the archive readResults in: the
\* file it read and what the read gave.
ReadResult(files, i) == [file |-> i, data |-> files[i]]

\* `file_path = valid_csv_paths[i]` for the i-th of the results: what the
\* read labelled with each path gave.
Paired(rs, paths) ==
    [i \in {paths[k] : k \in 1..Len(rs)} |->
        rs[CHOOSE k \in 1..Len(rs) : paths[k] = i].data]

\* ------------------------------------------------------ ExtractDocMessage
Msg(status, message, total, results) ==
    [extract_status |-> status, extract_message |-> message,
     total_csv_files |-> total, results |-> results]

\* The message get_document and process_zip_file start from.
FailMsg(message) == Msg("fail", message, 0, <<>>)

NoMsg == Msg("none", NoneV, 0, <<>>)


\* List-flow state (fetch_date_interval_doc_list / _fetch_list / _filter_docs).
VARIABLES
    lpc,              \* position of the fetch_date_interval_doc_list coroutine
    date_from,        \* first day of the requested range
    date_end,         \* last day of the requested range
    date_cursor,      \* the day the loop is at
    listRequests,     \* client.get calls issued by the current _fetch_list call
    lastListResp,     \* what the last listing client.get produced
    lastListAttempt,  \* how the last _fetch_list attempt ended
    listBudgetLeft,   \* stamina: the retry_timeout budget was not yet used up
    raw_data,         \* the parsed listing body of the current day
    res,              \* the res dict: status_code, fetch_status, message, results
    failedDates,      \* days whose _fetch_list call raised
    fetchedDates,     \* days whose _fetch_list call returned a body
    keptDocs,         \* per day whose _filter_docs returned: the kept entries
    visited,          \* the days a _fetch_list call was started for, in order
    pauses,           \* the asyncio.sleep(fetch_interval) calls made
    lout,             \* "none", "return" or "raise"
    lexc,             \* the exception the list call raised
    lres              \* the DocListMultiMessage the list call returned

listVars == <<lpc, date_from, date_end, date_cursor, listRequests,
              lastListResp, lastListAttempt, listBudgetLeft, raw_data, res,
              failedDates, fetchedDates, keptDocs, visited, pauses, lout,
              lexc, lres>>

\* Single-date state (fetch_single_doc_list / _fetch_list / _filter_docs).
VARIABLES
    spc,              \* position of the fetch_single_doc_list coroutine
    single_date,      \* the date argument
    singleRequests,   \* client.get calls issued by its _fetch_list call
    lastSingleResp,   \* what the last of them produced
    lastSingleAttempt,\* how the last _fetch_list attempt ended
    singleBudgetLeft, \* stamina: the retry_timeout budget was not yet used up
    single_raw,       \* raw_data of fetch_single_doc_list
    sout,             \* "none", "return" or "raise"
    sexc,             \* the exception fetch_single_doc_list raised
    sres              \* the DocListSingleMessage it returned

singleVars == <<spc, single_date, singleRequests, lastSingleResp,
                lastSingleAttempt, singleBudgetLeft, single_raw, sout, sexc,
                sres>>

\* Classification state (DocProcessor.process_raw_csv_data).
VARIABLES
    cpc,                   \* position of the process_raw_csv_data coroutine
    custom_fields,         \* self.custom_fields
    raw_csv_data,          \* the argument: per file its name and its rows
    fileIdx,               \* the file the outer loop is at
    rowIdx,                \* the row the inner loop is at
    file_filtered_records, \* records kept from the current file
    filtered_results,      \* records of the files that are done
    metadata_container,    \* tag -> value
    business_description,  \* the translated narrative values, concatenated
    translateCalls,        \* the values translator.translate was called with
    cout,                  \* "none", "return" or "raise"
    cret                   \* the tuple process_raw_csv_data returned

classifyVars == <<cpc, custom_fields, raw_csv_data, fileIdx, rowIdx,
                  file_filtered_records, filtered_results,
                  metadata_container, business_description, translateCalls,
                  cout, cret>>

\* Translator state (GoogleTranslator.translate / BypassTranslator.translate).
VARIABLES
    tpc,              \* position of the translate coroutine
    input_text,       \* the argument
    result_text,      \* result.text of the backend, once it has answered
    backendFailed,    \* the backend raised during this call
    tout,             \* "none", "return" or "raise"
    tret              \* the text translate returned

translatorVars == <<tpc, input_text, result_text, backendFailed, tout, tret>>

\* Reader state (utils.read_csv_file).
VARIABLES
    rpc,               \* position of the read_csv_file coroutine
    csv_file,          \* the file at file_path
    detected_encoding, \* what detect_encoding returned
    unique_encodings,  \* the candidate list
    tried,             \* the candidates _sync_read_csv_with_encoding was run with
    rout,              \* "none", "return" or "raise"
    rret               \* what read_csv_file returned

readerVars == <<rpc, csv_file, detected_encoding, unique_encodings, tried,
                rout, rret>>

\* The clients of concurrent calls (EdinetBaseAPIFetcher._get_client).
VARIABLES
    clients,          \* open clients that hold no connection
    inUse,            \* open clients whose connection carries a request
    keptAlive         \* open clients that hold an idle keep-alive connection

poolVars == <<clients, inUse, keptAlive>>

\* Concurrent tasks on one fetcher (get_document, fetch_single_doc_list,
\* fetch_date_interval_doc_list).
VARIABLES
    tasks,            \* per task: the call it runs
    frames,           \* the local variables of the running coroutines
    served,           \* per task: the answers its client.get calls got
    returned          \* per task: what its caller got

gatherVars == <<tasks, frames, served, returned>>

\* Filtering state (_filter_docs with its _translate tasks).
VARIABLES
    fpc,              \* position of the _filter_docs coroutine
    filtered,         \* the DoclistResult objects of the list `filtered`
    translations,     \* per _translate task: "pending", "done" or "raised"
    finished,         \* the _translate tasks that are done, in completion order
    fout              \* "none", "return" or "raise"

filterVars == <<fpc, filtered, translations, finished, fout>>

vars == <<constructed, retry_attempts, docVars, listVars, singleVars,
          classifyVars, translatorVars, readerVars, poolVars, gatherVars,
          filterVars>>

\* ------------------------------------------------------------ get_document
\* `type(content) is not bytes` decides whether the payload is processed.
IsBytesAlways(content) == TRUE

IsBytes(content) == content = "bytes"

Handled(out, exc, message) == [out |-> out, exc |-> exc, message |-> message]

GetDocumentExceptAlwaysRaise(exc, roe) ==
    IF exc.cls \in EdinetErrorClasses
    THEN Handled("raise", exc, exc.message)
    ELSE IF IsException(exc.cls)
    THEN Handled("raise", Exc("EdinetAPIError", "Critical error", NoStatus),
                 "Critical error")
    ELSE Handled("raise", exc, NoneV)

\* The two except clauses that close get_document's outer try: an Edinet
\* error sets extract_message to str(e) and is re-raised when raise_on_error;
\* any other Exception sets "Critical error: ..." and becomes an
\* EdinetAPIError when raise_on_error; a BaseException passes through.
GetDocumentExcept(exc, roe) ==
    IF exc.cls \in EdinetErrorClasses
    THEN Handled(IF roe THEN "raise" ELSE "return", exc, exc.message)
    ELSE IF IsException(exc.cls)
    THEN Handled(IF roe THEN "raise" ELSE "return",
                 Exc("EdinetAPIError", "Critical error", NoStatus),
                 "Critical error")
    ELSE Handled("raise", exc, NoneV)

\* get_document ends: by a return of `message`, or by a raise.
DocEnds(h) ==
    /\ dpc' = "done"
    /\ dout' = h.out
    /\ dexc' = IF h.out = "raise" THEN h.exc ELSE NoExc
    /\ dres' = IF h.out = "return" THEN FailMsg(h.message) ELSE NoMsg

\* process_zip_file returned `result`: get_document returns it through the
\* finally clause, which unlinks the temporary zip file if it can.
DocReturnsResult(result) ==
    /\ dpc' = "done"
    /\ dout' = "return"
    /\ dexc' = NoExc
    /\ dres' = result
    /\ tmpDir' = FALSE
    /\ tmpZip' = unlinkFails

\* A caller starts get_document: the message is built, the client opened and
\* _fetch_doc entered, up to the first client.get.
DocCall(roe, uf) ==
    /\ dpc = "idle"
    /\ lpc = "idle"
    /\ spc = "idle"
    /\ cpc = "idle"
    /\ constructed = "EdinetAPIFetcher"
    /\ dpc' = "fetch"
    /\ raise_on_error' = roe
    /\ unlinkFails' = uf
    /\ UNCHANGED <<constructed, retry_attempts, filterVars, poolVars, gatherVars, readerVars, translatorVars, docRequests, lastResp, lastAttempt,
                   budgetLeft, archive, readPaths, readResults, rawList, tmpZip, tmpDir,
                   everTmpZip, orphanExtract, interrupted, dout, dexc, dres>>
    /\ UNCHANGED <<listVars, singleVars, classifyVars>>

\* client.get completes with resp and the attempt body runs.  A retryable
\* failure with attempts and budget left goes back to client.get after the
\* backoff; any other failure leaves _fetch_doc and is handled by
\* get_document; a returned payload that is not bytes ends the call with
\* "parsing failed"; bytes are written to the temporary zip file and
\* process_zip_file runs up to `await asyncio.to_thread(_sync_extract_zip)`.
DocAttempt(resp, budget, arch) ==
    /\ dpc = "fetch"
    /\ LET o == FetchDocAttempt(resp)
           made == docRequests + 1
           proceeds == o.kind = "return" /\ IsBytes(o.content)
       IN
       /\ (o.kind = "return") => budget
       /\ docRequests' = made
       /\ lastResp' = resp
       /\ lastAttempt' = o
       /\ budgetLeft' = budget
       /\ IF o.kind = "raise"
          THEN IF ShouldRetry(o.exc.cls, made, retry_attempts, budget)
               THEN /\ dpc' = "fetch"
                    /\ UNCHANGED <<dout, dexc, dres>>
               ELSE DocEnds(GetDocumentExcept(o.exc, raise_on_error))
          ELSE IF proceeds
               THEN /\ dpc' = "extract"
                    /\ UNCHANGED <<dout, dexc, dres>>
               ELSE DocEnds(Handled("return", NoExc, "Document parsing failed"))
       /\ tmpZip' = proceeds
       /\ tmpDir' = proceeds
       /\ everTmpZip' = proceeds
       /\ archive' = IF proceeds THEN arch ELSE NoArchive
    /\ UNCHANGED <<constructed, retry_attempts, filterVars, poolVars, gatherVars, readerVars, translatorVars, raise_on_error, unlinkFails, readPaths, readResults,
                   rawList, orphanExtract, interrupted>>
    /\ UNCHANGED <<listVars, singleVars, classifyVars>>

ExtractFailureIgnoresBadZip(arch) ==
    IF arch.zip = "err" THEN "Error extracting" ELSE NoneV

\* How `await asyncio.to_thread(_sync_extract_zip, ...)` fails: BadZipFile
\* gives the "Bad ZIP file" message, any other Exception "Error extracting";
\* None when the archive was extracted.
ExtractFailure(arch) ==
    IF arch.zip = "bad" THEN "Bad ZIP file"
    ELSE IF arch.zip = "err" THEN "Error extracting"
    ELSE NoneV

\* The extraction thread is done.  A bad archive or an extraction error ends
\* process_zip_file with a fail message; otherwise _find_csv_paths runs, no
\* file ends it with "No CSV files found", and with files _read_files is
\* awaited.
DocExtract ==
    /\ dpc = "extract"
    /\ IF ExtractFailure(archive) # NoneV
       THEN /\ DocReturnsResult(FailMsg(ExtractFailure(archive)))
            /\ UNCHANGED <<readPaths, readResults>>
       ELSE IF FindCsvPaths(archive.files) = <<>>
       THEN /\ DocReturnsResult(FailMsg("No CSV files found in zip"))
            /\ UNCHANGED <<readPaths, readResults>>
       ELSE /\ dpc' = "read"
            /\ readPaths' = ReadTasks(archive.files)
            /\ readResults' = [k \in 1..Len(ReadTasks(archive.files)) |-> Pending]
            /\ UNCHANGED <<tmpZip, tmpDir, dout, dexc, dres>>
    /\ UNCHANGED <<constructed, retry_attempts, filterVars, poolVars, gatherVars, readerVars, translatorVars, raise_on_error, unlinkFails, docRequests,
                   lastResp, lastAttempt, budgetLeft, archive, rawList,
                   everTmpZip, orphanExtract, interrupted>>
    /\ UNCHANGED <<listVars, singleVars, classifyVars>>

\* One of the read_csv_file tasks that asyncio.gather runs completes; the
\* tasks complete in any order, and gather keeps each result at the position
\* of its task.
DocReadFile(k) ==
    /\ dpc = "read"
    /\ k \in 1..Len(readResults)
    /\ readResults[k] = Pending
    /\ readResults' = [readResults EXCEPT ![k] = ReadResult(archive.files, readPaths[k])]
    /\ UNCHANGED <<constructed, retry_attempts, filterVars, poolVars, gatherVars,
                   readerVars, translatorVars, raise_on_error, unlinkFails,
                   dpc, docRequests, lastResp, lastAttempt, budgetLeft,
                   archive, readPaths, rawList, tmpZip, tmpDir, everTmpZip,
                   orphanExtract, interrupted, dout, dexc, dres>>
    /\ UNCHANGED <<listVars, singleVars, classifyVars>>

\* _read_files is done, every task having completed: the i-th result is
\* paired with valid_csv_paths[i] (an index past the end of valid_csv_paths
\* is an IndexError for the outer except clause), the files that gave
\* records are collected, and process_raw_csv_data is entered.
DocRead ==
    /\ dpc = "read"
    /\ \A k \in 1..Len(readResults) : readResults[k] # Pending
    /\ LET paths == ValidCsvPaths(archive.files) IN
       IF Len(readResults) > Len(paths)
       THEN /\ DocReturnsResult(FailMsg("Critical error processing zip file"))
            /\ UNCHANGED rawList
       ELSE /\ rawList' = RawCsvData(Paired(readResults, paths),
                                    SubSeq(paths, 1, Len(readResults)))
            /\ dpc' = "classify"
            /\ UNCHANGED <<tmpZip, tmpDir, dout, dexc, dres>>
    /\ UNCHANGED <<constructed, retry_attempts, filterVars, poolVars, gatherVars,
                   readerVars, translatorVars, raise_on_error, unlinkFails,
                   docRequests, lastResp, lastAttempt, budgetLeft, archive,
                   readPaths, readResults, everTmpZip, orphanExtract,
                   interrupted>>
    /\ UNCHANGED <<listVars, singleVars, classifyVars>>

\* The file names, in order, of the collected row sets.
FileNames(raw) == [i \in 1..Len(raw) |-> raw[i].filename]

ResultAtRaiseAssignedEarly(raw) == Msg("fail", NoneV, Len(raw), FileNames(raw))

\* extracted_result as the outer except clause of process_zip_file finds it
\* when process_raw_csv_data raised: total_csv_files, results and
\* extract_status are assigned only after that call has returned.
ResultAtRaise(raw) == FailMsg(NoneV)

\* process_raw_csv_data is done.  A row that fails DocResult validation makes
\* it raise, which process_zip_file turns into a "Critical error" fail
\* message; otherwise the message gets the count, the records and "success".
DocClassify ==
    /\ dpc = "classify"
    /\ IF \E i \in 1..Len(rawList) : rawList[i].data = "badrow"
       THEN DocReturnsResult(
                [ResultAtRaise(rawList) EXCEPT
                    !.extract_message = "Critical error processing zip file"])
       ELSE DocReturnsResult(
                Msg("success", NoneV, Len(rawList), FileNames(rawList)))
    /\ UNCHANGED <<constructed, retry_attempts, filterVars, poolVars, gatherVars, readerVars, translatorVars, raise_on_error, unlinkFails, docRequests,
                   lastResp, lastAttempt, budgetLeft, archive, readPaths, readResults,
                   rawList, everTmpZip, orphanExtract, interrupted>>
    /\ UNCHANGED <<listVars, singleVars, classifyVars>>

\* A BaseException hits the call: task cancellation at an await, or a
\* KeyboardInterrupt raised in the synchronous code of the current stage.
\* In the fetch stage it passes through _fetch_doc and get_document.  Later
\* it leaves process_zip_file through the TemporaryDirectory cleanup; a
\* cancelled `await asyncio.to_thread(...)` leaves the extraction thread
\* running.  get_document's `except KeyboardInterrupt` unlinks the zip file
\* (an unlink failure is an Exception for the outer handlers) and then falls
\* through to the final `return message`; any other BaseException runs the
\* finally clause and propagates.
DocInterrupt(kind) ==
    /\ dpc \in {"fetch", "extract", "read", "classify"}
    /\ interrupted' = kind
    /\ IF dpc = "fetch"
       THEN /\ DocEnds(Handled("raise", Exc(kind, NoneV, NoStatus), NoneV))
            /\ UNCHANGED <<tmpZip, tmpDir, orphanExtract>>
       ELSE /\ tmpDir' = FALSE
            /\ orphanExtract' = (/\ kind = "CancelledError"
                                 /\ dpc = "extract"
                                 /\ archive.zip = "ok"
                                 /\ archive.files # <<>>)
            /\ tmpZip' = unlinkFails
            /\ IF kind = "KeyboardInterrupt"
               THEN IF unlinkFails
                    THEN DocEnds(GetDocumentExcept(
                             Exc("PermissionError", "unlink failed", NoStatus),
                             raise_on_error))
                    ELSE DocEnds(Handled("return", NoExc, NoneV))
               ELSE DocEnds(Handled("raise", Exc(kind, NoneV, NoStatus), NoneV))
    /\ UNCHANGED <<constructed, retry_attempts, filterVars, poolVars, gatherVars, readerVars, translatorVars, raise_on_error, unlinkFails, docRequests,
                   lastResp, lastAttempt, budgetLeft, archive, readPaths, readResults,
                   rawList, everTmpZip>>
    /\ UNCHANGED <<listVars, singleVars, classifyVars>>

\* The extraction thread that outlived its cancelled await ends.  It ran
\* concurrently with the directory cleanup: a member it wrote after the
\* cleanup re-creates the directory (recreated), or none did.
OrphanExtractEnds(recreated) ==
    /\ orphanExtract
    /\ orphanExtract' = FALSE
    /\ tmpDir' = recreated
    /\ UNCHANGED <<constructed, retry_attempts, filterVars, poolVars, gatherVars, readerVars, translatorVars, raise_on_error, unlinkFails, dpc,
                   docRequests, lastResp, lastAttempt, budgetLeft, archive,
                   readPaths, readResults, rawList, tmpZip, everTmpZip, interrupted, dout,
                   dexc, dres>>
    /\ UNCHANGED <<listVars, singleVars, classifyVars>>


\* ------------------------------------------------------- listing responses
\* One entry of a listing: its docTypeCode, its filerName (a string, None or
\* a value that is no string) and whether it has every field DoclistResult
\* requires.
Entry(code, filer, complete) ==
    [docTypeCode |-> code, filerName |-> filer, complete |-> complete]

SUPPORTED_DOC_TYPES == {"160", "140", "120"}

EntryKinds ==
    {Entry("120", "filer", TRUE), Entry("350", "filer", TRUE),
     Entry("120", NoneV, TRUE), Entry("120", "not-a-str", TRUE),
     Entry("140", "filer", FALSE)}

EntrySeqs == UNION {[1..n -> EntryKinds] : n \in 0..MaxDocs}

\* A parsed listing body: whether it has a "metadata" object (with an integer
\* status and a message text), whether it has a "results" list, and the list.
Body(metaOk, hasResults, docs) ==
    [metaOk |-> metaOk, hasResults |-> hasResults, docs |-> docs]

NoBody == Body(FALSE, FALSE, <<>>)

Bodies ==
    {Body(m, TRUE, ds) : m \in BOOLEAN, ds \in EntrySeqs}
    \cup {Body(TRUE, FALSE, <<>>)}

\* A listing request is answered by a transport failure, by a non-200
\* status, by 200 with a body that is no JSON, or by 200 with a JSON body.
ListResp(tr, st, json, body) ==
    [transport |-> tr, status |-> st, json |-> json, body |-> body]

NoListResp == ListResp("none", 0, FALSE, NoBody)

ListResponses ==
    {ListResp(t, 0, FALSE, NoBody) : t \in TransportErrors}
    \cup {ListResp("ok", st, FALSE, NoBody) : st \in HttpStatuses}
    \cup {ListResp("ok", SUCCESS, TRUE, b) : b \in Bodies}

\* -------------------------------------------------------------- _fetch_list
ListReturned(body) == [kind |-> "return", body |-> body, exc |-> NoExc]

ListRaised(exc) == [kind |-> "raise", body |-> NoBody, exc |-> exc]

NoListAttempt == [kind |-> "none", body |-> NoBody, exc |-> NoExc]

\* The try body of one attempt of _fetch_list: client.get, then the if/elif
\* chain over the status code.
ListAttemptBody(resp) ==
    IF resp.transport # "ok"
    THEN ListRaised(Exc(resp.transport, "transport failure", NoStatus))
    ELSE LET st == resp.status IN
         IF st = SUCCESS
         THEN IF resp.json
              THEN ListReturned(resp.body)
              ELSE ListRaised(Exc("ValueError", "no JSON", NoStatus))
         ELSE IF st = AUTH_ERROR
         THEN ListRaised(Exc("EdinetAPIAuthError", "Authentication failed",
                             NoStatus))
         ELSE IF st = RATE_LIMIT_ERROR
         THEN ListRaised(Exc("EdinetAPIRateLimitError",
                             "API rate limit exceeded", NoStatus))
         ELSE IF st \in RETRY_STATUS_CODES
         THEN ListRaised(Exc("EdinetAPIError", "Server error", st))
         ELSE ListRaised(Exc("EdinetClientError", "Client error", st))

\* One attempt of _fetch_list with the except clauses that close its try: an
\* httpx.HTTPError becomes EdinetAPIError("Connection error: ..."), and every
\* other Exception, the errors raised by the if/elif chain included, becomes
\* EdinetAPIError("Unknown error after retries"); neither carries a status.
FetchListAttempt(resp) ==
    LET o == ListAttemptBody(resp) IN
    IF o.kind = "return" THEN o
    ELSE IF o.exc.cls \in TransportErrors
    THEN ListRaised(Exc("EdinetAPIError", "Connection error", NoStatus))
    ELSE ListRaised(Exc("EdinetAPIError", "Unknown error after retries",
                        NoStatus))

\* ------------------------------------------------------------- _filter_docs
\* _is_valid: filerName is not None and docTypeCode is a supported type.
IsValidAnyCode(doc) ==
    doc.filerName # NoneV

IsValid(doc) ==
    doc.filerName # NoneV /\ doc.docTypeCode \in SUPPORTED_DOC_TYPES

\* _filter_docs over docs: "raise" when a valid entry fails DoclistResult
\* validation (the ValidationError is not among the caught exceptions), else
\* the valid entries whose filerName is a string, in order.
RECURSIVE FilterDocs(_)
FilterDocs(docs) ==
    IF docs = <<>> THEN [kind |-> "return", docs |-> <<>>]
    ELSE LET d == Head(docs)
             rest == FilterDocs(Tail(docs))
         IN IF ~IsValid(d) \/ d.filerName = "not-a-str"
            THEN rest
            ELSE IF ~d.complete
            THEN [kind |-> "raise", docs |-> <<>>]
            ELSE IF rest.kind = "raise" THEN rest
            ELSE [kind |-> "return", docs |-> <<d>> \o rest.docs]


\* ------------------------------------------- fetch_date_interval_doc_list
EmptyRes ==
    [status_code |-> <<>>, fetch_status |-> <<>>, message |-> <<>>,
     results |-> <<>>]

\* One {date_str: value} item of a per-date list of res.
Item(date, value) == [date |-> date, value |-> value]

\* getattr(e, "status_code", 500): an Edinet error has the attribute (None
\* unless a status was passed to it), any other exception has not.
GetattrStatusCode(exc) ==
    IF exc.cls \in EdinetErrorClasses THEN exc.status_code ELSE 500

\* The except clause of the loop body: the day's status code and message are
\* appended to res.
Skipping(r, date, exc) ==
    [r EXCEPT !.status_code = Append(@, Item(date, GetattrStatusCode(exc))),
              !.message = Append(@, Item(date, exc.message))]

\* What the try body appends after _fetch_list returned, before _filter_docs.
Fetched(r, date, status) ==
    [r EXCEPT !.status_code = Append(@, Item(date, status)),
              !.fetch_status = Append(@, Item(date, 200)),
              !.message = Append(@, Item(date, "OK"))]

\* The entries of one day, each with the day it was listed for.
RECURSIVE Dated(_, _)
Dated(date, docs) ==
    IF docs = <<>> THEN <<>>
    ELSE <<Item(date, Head(docs))>> \o Dated(date, Tail(docs))

ExtendResultsFront(results, date, docs) == Dated(date, docs) \o results

\* [res["results"].append(doc) for doc in docs]
ExtendResults(results, date, docs) == results \o Dated(date, docs)

PausesAfterTryOnly(path) == IF path = "try" THEN 1 ELSE 0

\* `await asyncio.sleep(self.fetch_interval)` stands after the try statement
\* of the loop body: it is reached from the try body and from the except
\* clause alike.
Pauses(path) == 1

MultiMessage(r) ==
    [status_code |-> r.status_code, fetch_status |-> r.fetch_status,
     message |-> r.message, count |-> Len(r.results), results |-> r.results]

NoMultiMessage == [status_code |-> <<>>, fetch_status |-> <<>>,
                   message |-> <<>>, count |-> 0 - 1, results |-> <<>>]

\* DocListMultiMessage declares status_code: list[dict[str, int]]: a None
\* among the recorded status codes fails the validation of the message.
ValidMultiMessage(r) ==
    \A i \in 1..Len(r.status_code) : r.status_code[i].value # NoStatus

\* The loop is over: the DocListMultiMessage is built from res and returned,
\* or its construction raises a ValidationError.
ListEnds(r) ==
    /\ lpc' = "done"
    /\ IF ValidMultiMessage(r)
       THEN /\ lout' = "return"
            /\ lexc' = NoExc
            /\ lres' = MultiMessage(r)
       ELSE /\ lout' = "raise"
            /\ lexc' = Exc("ValidationError", "status_code", NoStatus)
            /\ lres' = NoMultiMessage

\* A caller starts fetch_date_interval_doc_list(first, last): the dates are
\* parsed and the loop entered, up to the first client.get; an empty range
\* skips the loop.
ListCall(first, last) ==
    /\ lpc = "idle"
    /\ dpc = "idle"
    /\ spc = "idle"
    /\ cpc = "idle"
    /\ constructed = "EdinetAPIFetcher"
    /\ date_from' = first
    /\ date_end' = last
    /\ date_cursor' = first
    /\ IF first <= last
       THEN /\ lpc' = "fetch"
            /\ visited' = <<first>>
            /\ UNCHANGED <<lout, lexc, lres>>
       ELSE /\ ListEnds(EmptyRes)
            /\ UNCHANGED visited
    /\ UNCHANGED <<listRequests, lastListResp, lastListAttempt,
                   listBudgetLeft, raw_data, res, failedDates, fetchedDates,
                   keptDocs, pauses>>
    /\ UNCHANGED <<constructed, retry_attempts, filterVars, poolVars, gatherVars, readerVars, translatorVars, docVars, singleVars, classifyVars>>

\* client.get for the day at date_cursor completes with resp and the attempt
\* runs.  stamina retries it if the error that leaves the attempt is of a
\* class of `on`, with attempts and budget left.  Otherwise an error goes to
\* the except clause of the loop body; a returned body has its status,
\* metadata status and message appended (a missing metadata object raises
\* into the except clause) and _filter_docs is awaited.
ListAttempt(resp, budget) ==
    /\ lpc = "fetch"
    /\ LET o == FetchListAttempt(resp)
           made == listRequests + 1
       IN
       /\ (o.kind = "return") => budget
       /\ listRequests' = made
       /\ lastListResp' = resp
       /\ lastListAttempt' = o
       /\ listBudgetLeft' = budget
       /\ IF o.kind = "raise"
          THEN IF ShouldRetry(o.exc.cls, made, retry_attempts, budget)
               THEN /\ lpc' = "fetch"
                    /\ UNCHANGED <<res, raw_data, failedDates, fetchedDates,
                                   pauses>>
               ELSE /\ lpc' = "sleep"
                    /\ pauses' = pauses + Pauses("except")
                    /\ res' = Skipping(res, date_cursor, o.exc)
                    /\ failedDates' = failedDates \cup {date_cursor}
                    /\ UNCHANGED <<raw_data, fetchedDates>>
          ELSE /\ fetchedDates' = fetchedDates \cup {date_cursor}
               /\ raw_data' = o.body
               /\ UNCHANGED failedDates
               /\ IF o.body.metaOk
                  THEN /\ res' = Fetched(res, date_cursor, resp.status)
                       /\ lpc' = "filter"
                       /\ UNCHANGED pauses
                  ELSE /\ res' = Skipping(
                                    [res EXCEPT !.status_code =
                                        Append(@, Item(date_cursor, resp.status))],
                                    date_cursor,
                                    Exc("KeyError", "metadata", NoStatus))
                       /\ lpc' = "sleep"
                       /\ pauses' = pauses + Pauses("except")
    /\ UNCHANGED <<date_from, date_end, date_cursor, keptDocs, visited, lout,
                   lexc, lres>>
    /\ UNCHANGED <<constructed, retry_attempts, filterVars, poolVars, gatherVars, readerVars, translatorVars, docVars, singleVars, classifyVars>>

\* _filter_docs for the current day is done: the kept entries are appended
\* to res["results"], or its exception goes to the except clause.
ListFilter ==
    /\ lpc = "filter"
    /\ LET f == FilterDocs(raw_data.docs) IN
       IF f.kind = "raise"
       THEN /\ res' = Skipping(res, date_cursor,
                               Exc("ValidationError", "DoclistResult", NoStatus))
            /\ pauses' = pauses + Pauses("except")
            /\ UNCHANGED keptDocs
       ELSE /\ res' = [res EXCEPT
                           !.results = ExtendResults(@, date_cursor, f.docs)]
            /\ pauses' = pauses + Pauses("try")
            /\ keptDocs' = Append(keptDocs, Item(date_cursor, f.docs))
    /\ lpc' = "sleep"
    /\ UNCHANGED <<date_from, date_end, date_cursor, listRequests,
                   lastListResp, lastListAttempt, listBudgetLeft, raw_data,
                   failedDates, fetchedDates, visited, lout, lexc, lres>>
    /\ UNCHANGED <<constructed, retry_attempts, filterVars, poolVars, gatherVars, readerVars, translatorVars, docVars, singleVars, classifyVars>>

NextDaySkips(day) == day + 2

\* date_cursor += timedelta(days=1)
NextDay(day) == day + 1

\* asyncio.sleep(fetch_interval) is over: the cursor moves to the next day
\* and the loop goes on with a new _fetch_list call, or ends.
ListSleep ==
    /\ lpc = "sleep"
    /\ date_cursor' = NextDay(date_cursor)
    /\ listRequests' = 0
    /\ lastListResp' = NoListResp
    /\ lastListAttempt' = NoListAttempt
    /\ listBudgetLeft' = TRUE
    /\ raw_data' = NoBody
    /\ IF NextDay(date_cursor) <= date_end
       THEN /\ lpc' = "fetch"
            /\ visited' = Append(visited, NextDay(date_cursor))
            /\ UNCHANGED <<lout, lexc, lres>>
       ELSE /\ ListEnds(res)
            /\ UNCHANGED visited
    /\ UNCHANGED <<date_from, date_end, res, failedDates, fetchedDates,
                   keptDocs, pauses>>
    /\ UNCHANGED <<constructed, retry_attempts, filterVars, poolVars, gatherVars, readerVars, translatorVars, docVars, singleVars, classifyVars>>

\* --------------------------------------------------- fetch_single_doc_list
\* A date argument is a calendar day or a text that is no YYYY-MM-DD date.
BadDate == 0

SingleDates == (1..MaxDays) \cup {BadDate}

\* _validate_date: a text that strptime rejects raises ValueError.
ValidateDate(date) == date # BadDate

SingleMessage(status, fetch_status, message, count, results) ==
    [status_code |-> status, fetch_status |-> fetch_status,
     message |-> message, count |-> count, results |-> results]

NoSingleMessage == SingleMessage(NoStatus, NoStatus, NoneV, NoStatus, <<>>)

SingleOutcome(out, exc, msg) == [out |-> out, exc |-> exc, msg |-> msg]

SingleExceptCountsNothing(exc) ==
    SingleOutcome("return", NoExc,
                  SingleMessage(500, NoStatus, exc.message, 0, <<>>))

SingleExceptReraises(exc) == SingleOutcome("raise", exc, NoSingleMessage)

\* The except clause of fetch_single_doc_list: every Exception becomes a
\* returned message with status_code 500, no fetch_status, str(e), no count
\* and no results.
SingleExcept(exc) ==
    SingleOutcome("return", NoExc,
                  SingleMessage(500, NoStatus, exc.message, NoStatus, <<>>))

\* The try body after _fetch_list returned raw_data: _filter_docs over
\* raw_data.get("results"), then the DocListSingleMessage from the status,
\* the metadata and the kept entries.
SingleTryBody(raw, status) ==
    LET f == FilterDocs(IF raw.hasResults THEN raw.docs ELSE <<>>) IN
    IF f.kind = "raise"
    THEN SingleExcept(Exc("ValidationError", "DoclistResult", NoStatus))
    ELSE IF ~raw.metaOk
    THEN SingleExcept(Exc("KeyError", "metadata", NoStatus))
    ELSE SingleOutcome("return", NoExc,
                       SingleMessage(status, 200, "OK", Len(f.docs), f.docs))

SingleEnds(o) ==
    /\ spc' = "done"
    /\ sout' = o.out
    /\ sexc' = o.exc
    /\ sres' = o.msg

\* A caller starts fetch_single_doc_list(date): a malformed date raises
\* ValueError out of the call; otherwise the client is opened and _fetch_list
\* entered, up to the first client.get.
SingleCall(date) ==
    /\ spc = "idle"
    /\ dpc = "idle"
    /\ lpc = "idle"
    /\ cpc = "idle"
    /\ constructed = "EdinetAPIFetcher"
    /\ single_date' = date
    /\ IF ValidateDate(date)
       THEN /\ spc' = "fetch"
            /\ UNCHANGED <<sout, sexc, sres>>
       ELSE SingleEnds(SingleOutcome(
                "raise", Exc("ValueError", "Invalid date format", NoStatus),
                NoSingleMessage))
    /\ UNCHANGED <<singleRequests, lastSingleResp, lastSingleAttempt,
                   singleBudgetLeft, single_raw>>
    /\ UNCHANGED <<constructed, retry_attempts, filterVars, poolVars, gatherVars, readerVars, translatorVars, docVars, listVars, classifyVars>>

\* client.get completes with resp and the attempt runs.  stamina retries it
\* if the error that leaves the attempt is of a class of `on`, with attempts
\* and budget left; otherwise the error goes to the except clause.  A
\* returned body is kept and _filter_docs is awaited.
SingleAttempt(resp, budget) ==
    /\ spc = "fetch"
    /\ LET o == FetchListAttempt(resp)
           made == singleRequests + 1
       IN
       /\ (o.kind = "return") => budget
       /\ singleRequests' = made
       /\ lastSingleResp' = resp
       /\ lastSingleAttempt' = o
       /\ singleBudgetLeft' = budget
       /\ IF o.kind = "raise"
          THEN /\ UNCHANGED single_raw
               /\ IF ShouldRetry(o.exc.cls, made, retry_attempts, budget)
                  THEN /\ spc' = "fetch"
                       /\ UNCHANGED <<sout, sexc, sres>>
                  ELSE SingleEnds(SingleExcept(o.exc))
          ELSE /\ single_raw' = o.body
               /\ spc' = "filter"
               /\ UNCHANGED <<sout, sexc, sres>>
    /\ UNCHANGED single_date
    /\ UNCHANGED <<constructed, retry_attempts, filterVars, poolVars, gatherVars, readerVars, translatorVars, docVars, listVars, classifyVars>>

\* _filter_docs is done: the message is built and returned, or the error of
\* either step is absorbed by the except clause.
SingleFilter ==
    /\ spc = "filter"
    /\ SingleEnds(SingleTryBody(single_raw, lastSingleResp.status))
    /\ UNCHANGED <<single_date, singleRequests, lastSingleResp,
                   lastSingleAttempt, singleBudgetLeft, single_raw>>
    /\ UNCHANGED <<constructed, retry_attempts, filterVars, poolVars, gatherVars, readerVars, translatorVars, docVars, listVars, classifyVars>>

\* ------------------------------------------- DocProcessor: identifier texts
\* A text cell is a sequence of tokens; <<>> is the empty text.  An element
\* identifier is its namespace prefix followed by the parts of its local
\* name, a context identifier its leading part followed by the rest.
NoneCell == <<NoneV>>

META_PATTERNS ==
    {<<"jpdei_cor:", "FilerNameInEnglishDEI">>,
     <<"jpdei_cor:", "SecurityCodeDEI">>,
     <<"jpdei_cor:", "AccountingStandardsDEI">>,
     <<"jpdei_cor:", "EDINETCodeDEI">>,
     <<"jpcrp_cor:", "CompanyNameInEnglishCoverPage">>,
     <<"jpdei_cor:", "WhetherConsolidatedFinancialStatementsArePreparedDEI">>,
     <<"jpdei_cor:", "TypeOfCurrentPeriodDEI">>,
     <<"jpdei_cor:", "CurrentFiscalYearStartDateDEI">>,
     <<"jpdei_cor:", "CurrentPeriodEndDateDEI">>,
     <<"jpdei_cor:", "CurrentFiscalYearEndDateDEI">>,
     <<"jpdei_cor:", "PreviousFiscalYearStartDateDEI">>,
     <<"jpdei_cor:", "ComparativePeriodEndDateDEI">>,
     <<"jpdei_cor:", "PreviousFiscalYearEndDateDEI">>,
     <<"jpdei_cor:", "AmendmentFlagDEI">>}

CONTEXT_PATTERNS == {<<"FilingDate">>, <<"Current">>, <<"Prior1">>}

\* str.startswith
StartsWith(text, prefix) ==
    /\ Len(text) >= Len(prefix)
    /\ SubSeq(text, 1, Len(prefix)) = prefix

\* any(context_id_str.startswith(pattern) for pattern in CONTEXT_PATTERNS)
RecognisedContext(ctx) ==
    \E pattern \in CONTEXT_PATTERNS : StartsWith(ctx, pattern)

IsMetaNever(elem) == FALSE

\* cleaned_record.element_id in DocProcessor.META_PATTERNS
IsMeta(elem) == elem \in META_PATTERNS

PatternMatchNever(elem) == FALSE

\* pattern_match(r".*DescriptionOfBusiness.*", element_id): re.search finds
\* the text anywhere in the identifier.
PatternMatch(elem) ==
    \E i \in 1..Len(elem) : elem[i] = "DescriptionOfBusiness"

\* ------------------------------------------------------ the rows of a file
\* A row as it stands in the file: the context, element and unit cells.
RawRow(ctx, elem, unit) == [ctx |-> ctx, elem |-> elem, unit |-> unit]

RowKinds ==
    {RawRow(<<"FilingDate", "Instant">>, <<"jpdei_cor:", "EDINETCodeDEI">>,
            <<"-">>),
     RawRow(<<"FilingDate", "Instant">>, <<"jpdei_cor:", "AmendmentFlagDEI">>,
            <<"-">>),
     RawRow(<<"Current", "YearDuration">>,
            <<"jpcrp_cor:", "DescriptionOfBusiness", "TextBlock">>, <<"-">>),
     RawRow(<<"Current", "YearInstant">>, <<"jppfs_cor:", "Assets">>,
            <<"JPY">>),
     RawRow(<<"Prior1", "YearDuration">>, <<"jppfs_cor:", "NetSales">>,
            <<"JPY">>),
     RawRow(<<>>, <<"jppfs_cor:", "Assets">>, <<"JPY">>),
     RawRow(<<"NonFilterContext">>, <<"jpdei_cor:", "EDINETCodeDEI">>,
            <<"-">>),
     RawRow(<<"NonFilterContext">>,
            <<"jpcrp_cor:", "DescriptionOfBusiness", "TextBlock">>, <<"-">>),
     RawRow(<<"Current", "YearInstant">>, <<>>, <<"JPY">>),
     RawRow(<<"Current", "YearInstant">>, <<"jppfs_cor:", "Assets">>, <<>>)}

RowSeqs == UNION {[1..n -> RowKinds] : n \in 0..MaxRows}

ReadCellKeepsEmpty(cell) == cell

\* pd.read_csv(dtype=str) with df.replace({nan: None, "": None}): an empty
\* cell is None in the record, any other cell is its text.
ReadCell(cell) == IF cell = <<>> THEN NoneCell ELSE cell

\* One record of df.to_dict(orient="records").  The value cell of the row at
\* position pos of the document is the text numbered pos; the texts are not
\* empty and are no numerals ("false", "E00001", "2023-04-01", prose).
ReadRecord(row, pos) ==
    [ctx |-> ReadCell(row.ctx), elem |-> ReadCell(row.elem),
     unit |-> ReadCell(row.unit), value |-> pos]

\* The ways to deal n rows, in order, to k files.
Owners(n, k) ==
    {o \in [1..n -> 1..k] : \A i \in 1..n, j \in 1..n : i < j => o[i] <= o[j]}

\* raw_csv_data_list for k files that hold `rows`, file f the rows o gives it.
RawCsvInput(rows, k, o) ==
    [f \in 1..k |->
        LET own == SelectSeq([i \in 1..Len(rows) |-> i], LAMBDA i : o[i] = f)
        IN [filename |-> f,
            data |-> [j \in 1..Len(own) |-> ReadRecord(rows[own[j]], own[j])]]]

\* The documents of at most MaxRows rows in at most MaxFiles files.
RawCsvInputs ==
    UNION {UNION {{RawCsvInput(rows, k, o) : o \in Owners(Len(rows), k)} :
                  k \in 0..MaxFiles} :
           rows \in RowSeqs}

\* custom_fields: None, or a list of element identifiers.
CustomFields(given, fields) == [given |-> given, fields |-> fields]

CustomFieldChoices ==
    {CustomFields(FALSE, {}),
     CustomFields(TRUE, {}),
     CustomFields(TRUE, {<<"jppfs_cor:", "Assets">>}),
     CustomFields(TRUE, {<<"jppfs_cor:", "Assets">>,
                         <<"jpdei_cor:", "EDINETCodeDEI">>,
                         <<"jpcrp_cor:", "DescriptionOfBusiness", "TextBlock">>})}

\* ------------------------------------------------------ process_raw_csv_data
DocResultValidWithoutUnit(record) ==
    /\ record.elem # NoneCell
    /\ record.ctx # NoneCell

\* DocResult(_source_file=filename, **record): element_id, context_identifier
\* and currency_id are declared str, so a None among them fails validation.
DocResultValid(record) ==
    /\ record.elem # NoneCell
    /\ record.ctx # NoneCell
    /\ record.unit # NoneCell

\* The value is no numeral, so DocResult.smart_value_parser keeps the text.
DocResult(filename, record) ==
    [element_id |-> record.elem, context_identifier |-> record.ctx,
     currency_id |-> record.unit, value |-> record.value,
     source_file |-> filename]

AllowedAlways(elem, cf) == TRUE

\* The custom_fields filter: without a list every record passes, with a list
\* the records whose element_id is in it.
Allowed(elem, cf) == cf.given => elem \in cf.fields

RowClassFiltersFirst(record, cf) ==
    IF record.ctx = NoneCell \/ record.ctx = <<>> THEN "skip"
    ELSE IF ~RecognisedContext(record.ctx) THEN "skip"
    ELSE IF ~DocResultValid(record) THEN "raise"
    ELSE IF ~Allowed(record.elem, cf) THEN "drop"
    ELSE IF IsMeta(record.elem) THEN "meta"
    ELSE IF PatternMatch(record.elem) THEN "narrative"
    ELSE "keep"

\* What the loop body does with one record: "skip" (no context, or a context
\* that starts with no pattern), "raise" (DocResult validation fails), "meta",
\* "narrative", "keep" or "drop".
RowClass(record, cf) ==
    IF record.ctx = NoneCell \/ record.ctx = <<>> THEN "skip"
    ELSE IF ~RecognisedContext(record.ctx) THEN "skip"
    ELSE IF ~DocResultValid(record) THEN "raise"
    ELSE IF IsMeta(record.elem) THEN "meta"
    ELSE IF PatternMatch(record.elem) THEN "narrative"
    ELSE IF Allowed(record.elem, cf) THEN "keep"
    ELSE "drop"

\* The text translator.translate returns for a value: a text determined by
\* the value ("translation disabled: ...", "Not translated: ...", or the
\* translation).
Translate(value) == [translated |-> value]

AccumulateOverwrites(description, translated) == <<translated>>

\* business_description = business_description + translated
Accumulate(description, translated) == Append(description, translated)

ExtendFront(results, records) == records \o results

\* filtered_results.extend(file_filtered_records)
Extend(results, records) == results \o records

\* metadata_container[tag] = value
SetItem(container, tag, value) ==
    [t \in DOMAIN container \cup {tag} |->
        IF t = tag THEN value ELSE container[t]]

EmptyContainer == [t \in {} |-> 0]

\* The values of the fields of a MetadataExtract: a text, a bool, or None.
StrValue(text) == [str |-> text]

BoolValue(b) == [bool |-> b]

NullValue == [null |-> TRUE]

\* The fields MetadataExtract.smart_value_parser is registered for:
\* is_amendment and consolidated.
PARSED_FIELDS ==
    {<<"jpdei_cor:", "AmendmentFlagDEI">>,
     <<"jpdei_cor:", "WhetherConsolidatedFinancialStatementsArePreparedDEI">>}

\* MetadataExtract.smart_value_parser (mode="before") and the declared type
\* of the field: for is_amendment and consolidated a str v becomes bool(v),
\* which is True for every text that is not empty; the other fields keep
\* the text.
SmartValueParser(tag, value) ==
    IF tag \in PARSED_FIELDS THEN BoolValue(TRUE) ELSE StrValue(value)

\* MetadataExtract(**metadata_container): a field whose tag is not in the
\* container has its default, None.
MetadataExtract(container) ==
    [tag \in META_PATTERNS |->
        IF tag \in DOMAIN container
        THEN SmartValueParser(tag, container[tag])
        ELSE NullValue]

ClassifyResult(records, total, metadata, description) ==
    [records |-> records, total |-> total, metadata |-> metadata,
     business_description |-> description]

NoClassifyResult ==
    ClassifyResult(<<>>, 0, MetadataExtract(EmptyContainer), <<>>)

\* process_raw_csv_data(raw, ...) of the DocProcessor is called: the
\* accumulators are empty and the loops are at the first row of the first
\* file.
ClassifyCall(raw) ==
    /\ cpc = "idle"
    /\ dpc = "idle"
    /\ lpc = "idle"
    /\ spc = "idle"
    /\ constructed = "DocProcessor"
    /\ cpc' = "row"
    /\ raw_csv_data' = raw
    /\ fileIdx' = 1
    /\ rowIdx' = 1
    /\ UNCHANGED <<custom_fields, file_filtered_records, filtered_results,
                   metadata_container, business_description, translateCalls,
                   cout, cret>>
    /\ UNCHANGED <<constructed, retry_attempts, filterVars, poolVars, gatherVars, readerVars, translatorVars, docVars, listVars, singleVars>>

\* One iteration of `for record in csv_records`, up to its continue, its
\* `await translator.translate(...)` or its `await asyncio.sleep(0)`.
ClassifyRow ==
    /\ cpc = "row"
    /\ fileIdx <= Len(raw_csv_data)
    /\ rowIdx <= Len(raw_csv_data[fileIdx].data)
    /\ LET filename == raw_csv_data[fileIdx].filename
           record == raw_csv_data[fileIdx].data[rowIdx]
           class == RowClass(record, custom_fields)
       IN
       /\ cpc' = CASE class = "raise" -> "done"
                   [] class = "narrative" -> "translate"
                   [] OTHER -> "row"
       /\ cout' = IF class = "raise" THEN "raise" ELSE cout
       /\ rowIdx' = IF class \in {"raise", "narrative"} THEN rowIdx
                    ELSE rowIdx + 1
       /\ metadata_container' =
             IF class = "meta"
             THEN SetItem(metadata_container, record.elem, record.value)
             ELSE metadata_container
       /\ translateCalls' =
             IF class = "narrative"
             THEN Append(translateCalls, record.value)
             ELSE translateCalls
       /\ file_filtered_records' =
             IF class = "keep"
             THEN Append(file_filtered_records, DocResult(filename, record))
             ELSE file_filtered_records
    /\ UNCHANGED <<custom_fields, raw_csv_data, fileIdx, filtered_results,
                   business_description, cret>>
    /\ UNCHANGED <<constructed, retry_attempts, filterVars, poolVars, gatherVars, readerVars, translatorVars, docVars, listVars, singleVars>>

\* translator.translate returned: the text is appended to
\* business_description and the loop continues with the next row.
ClassifyTranslated ==
    /\ cpc = "translate"
    /\ LET record == raw_csv_data[fileIdx].data[rowIdx] IN
       business_description' =
          Accumulate(business_description, Translate(record.value))
    /\ rowIdx' = rowIdx + 1
    /\ cpc' = "row"
    /\ UNCHANGED <<custom_fields, raw_csv_data, fileIdx,
                   file_filtered_records, filtered_results,
                   metadata_container, translateCalls, cout, cret>>
    /\ UNCHANGED <<constructed, retry_attempts, filterVars, poolVars, gatherVars, readerVars, translatorVars, docVars, listVars, singleVars>>

\* The rows of the current file are done (or it has none): its kept records
\* are added to filtered_results and the outer loop goes to the next file.
ClassifyFileEnd ==
    /\ cpc = "row"
    /\ fileIdx <= Len(raw_csv_data)
    /\ rowIdx > Len(raw_csv_data[fileIdx].data)
    /\ filtered_results' = Extend(filtered_results, file_filtered_records)
    /\ file_filtered_records' = <<>>
    /\ fileIdx' = fileIdx + 1
    /\ rowIdx' = 1
    /\ UNCHANGED <<cpc, custom_fields, raw_csv_data, metadata_container,
                   business_description, translateCalls, cout, cret>>
    /\ UNCHANGED <<constructed, retry_attempts, filterVars, poolVars, gatherVars, readerVars, translatorVars, docVars, listVars, singleVars>>

\* Every file is done: business_description goes into the metadata and the
\* records, the number of files and the metadata are returned.
ClassifyEnd ==
    /\ cpc = "row"
    /\ fileIdx > Len(raw_csv_data)
    /\ cpc' = "done"
    /\ cout' = "return"
    /\ cret' = ClassifyResult(filtered_results, Len(raw_csv_data),
                              MetadataExtract(metadata_container),
                              business_description)
    /\ UNCHANGED <<custom_fields, raw_csv_data, fileIdx, rowIdx,
                   file_filtered_records, filtered_results,
                   metadata_container, business_description, translateCalls>>
    /\ UNCHANGED <<constructed, retry_attempts, filterVars, poolVars, gatherVars, readerVars, translatorVars, docVars, listVars, singleVars>>

\* ---------------------------------------------------------------- translate
\* The texts handed to a translator: the empty text and others.
InputTexts == {<<>>, <<"jp">>, <<"jp", "jp">>}

\* What result.text of the backend can be.
BackendTexts == {<<>>, <<"en">>}

\* The Exception subclasses the backend raises (connection failures, and
\* errors of the googletrans client over an answer it cannot read).
BackendErrors == {"httpx.ConnectError", "TypeError", "AttributeError"}

\* "Not translated: " + input_text
NotTranslated(text) == <<"Not translated: ">> \o text

\* "translation disabled: " + input_text
TranslationDisabled(text) == <<"translation disabled: ">> \o text

TranslateOutcome(out, text) == [out |-> out, text |-> text]

TranslateExceptReraises(cls, text) == TranslateOutcome("raise", <<>>)

\* GoogleTranslator.translate's `except Exception`: the marked input text is
\* returned; a BaseException that is no Exception passes through.
TranslateExcept(cls, text) ==
    IF IsException(cls) THEN TranslateOutcome("return", NotTranslated(text))
    ELSE TranslateOutcome("raise", <<>>)

TranslateEnds(o) ==
    /\ tpc' = "done"
    /\ tout' = o.out
    /\ tret' = o.text

\* translate(text) is called.  BypassTranslator returns the marked text
\* without an await; GoogleTranslator enters `async with Translator()`.
TranslateCall(text) ==
    /\ tpc = "idle"
    /\ constructed \in {"GoogleTranslator", "BypassTranslator"}
    /\ input_text' = text
    /\ IF constructed = "BypassTranslator"
       THEN TranslateEnds(TranslateOutcome("return", TranslationDisabled(text)))
       ELSE /\ tpc' = "enter"
            /\ UNCHANGED <<tout, tret>>
    /\ UNCHANGED <<result_text, backendFailed>>
    /\ UNCHANGED <<constructed, retry_attempts, filterVars, poolVars, gatherVars, readerVars, docVars, listVars, singleVars,
                   classifyVars>>

\* Translator().__aenter__ is done: it raised cls ("none": it did not), and
\* translator.translate(input_text, dest="en") is awaited.
TranslatorEnter(cls) ==
    /\ tpc = "enter"
    /\ backendFailed' = (cls # "none")
    /\ IF cls # "none"
       THEN TranslateEnds(TranslateExcept(cls, input_text))
       ELSE /\ tpc' = "translate"
            /\ UNCHANGED <<tout, tret>>
    /\ UNCHANGED <<input_text, result_text>>
    /\ UNCHANGED <<constructed, retry_attempts, filterVars, poolVars, gatherVars, readerVars, docVars, listVars, singleVars,
                   classifyVars>>

\* translator.translate is done: it raised cls, or its result has the text
\* `text`; the return statement leaves the async with, whose __aexit__ is
\* awaited.
TranslatorTranslate(cls, text) ==
    /\ tpc = "translate"
    /\ backendFailed' = (cls # "none")
    /\ IF cls # "none"
       THEN /\ TranslateEnds(TranslateExcept(cls, input_text))
            /\ UNCHANGED result_text
       ELSE /\ tpc' = "exit"
            /\ result_text' = text
            /\ UNCHANGED <<tout, tret>>
    /\ UNCHANGED input_text
    /\ UNCHANGED <<constructed, retry_attempts, filterVars, poolVars, gatherVars, readerVars, docVars, listVars, singleVars,
                   classifyVars>>

\* Translator().__aexit__ is done: result.text is returned, or the error of
\* __aexit__ is handled by the except clause.
TranslatorExit(cls) ==
    /\ tpc = "exit"
    /\ backendFailed' = (cls # "none")
    /\ IF cls # "none"
       THEN TranslateEnds(TranslateExcept(cls, input_text))
       ELSE TranslateEnds(TranslateOutcome("return", result_text))
    /\ UNCHANGED <<input_text, result_text>>
    /\ UNCHANGED <<constructed, retry_attempts, filterVars, poolVars, gatherVars, readerVars, docVars, listVars, singleVars,
                   classifyVars>>

\* ------------------------------------------------------------ read_csv_file
COMMON_ENCODINGS ==
    <<"utf-16", "utf-16le", "utf-16be", "utf-8", "shift-jis", "euc-jp",
      "iso-8859-1", "windows-1252">>

\* The names chardet.detect reports, in chardet's spelling.
ChardetNames ==
    {"utf-8", "UTF-16", "SHIFT_JIS", "EUC-JP", "ISO-8859-1", "Windows-1252",
     "ascii"}

\* The codec Python looks up for an encoding name: the lookup ignores case
\* and takes "_" for "-".
Codec(name) ==
    CASE name = "UTF-16" -> "utf-16"
      [] name = "SHIFT_JIS" -> "shift-jis"
      [] name = "EUC-JP" -> "euc-jp"
      [] name = "ISO-8859-1" -> "iso-8859-1"
      [] name = "Windows-1252" -> "windows-1252"
      [] OTHER -> name

\* The codecs that decode every byte sequence.
DecodesAnything == {"iso-8859-1"}

\* The encodings that keep the ASCII bytes of tab, line end and quote.
AsciiCompatible ==
    {"utf-8", "shift-jis", "euc-jp", "iso-8859-1", "windows-1252"}

Utf16Family == {"utf-16", "utf-16le", "utf-16be"}

\* A file on disk: the encoding its text was written in, and the other
\* codecs that decode its bytes without an error and give a table, with
\* other text in the cells.
CsvFile(encoding, garbledBy) ==
    [encoding |-> encoding, garbledBy |-> garbledBy \ {encoding}]

NoCsvFile == CsvFile(NoneV, {})

\* The codecs that read every file of the encoding as a table of other
\* text: iso-8859-1 decodes every byte, and the bytes of tab and line end
\* of an ASCII-compatible encoding are the ones it splits the table at.
AlwaysGarbledBy(encoding) ==
    IF encoding \in AsciiCompatible THEN DecodesAnything ELSE {}

\* The files: written in an encoding of the fallback list; the bytes of a
\* file may or may not be valid UTF-16 in another byte order.
CsvFiles ==
    UNION {{CsvFile(COMMON_ENCODINGS[i], AlwaysGarbledBy(COMMON_ENCODINGS[i])),
            CsvFile(COMMON_ENCODINGS[i],
                    AlwaysGarbledBy(COMMON_ENCODINGS[i]) \cup Utf16Family)} :
           i \in 1..Len(COMMON_ENCODINGS)}

\* _sync_detect_encoding: what chardet.detect reports, None for an empty
\* file or no guess, and None when open, read or chardet raise.
DetectOutcomes == ChardetNames \cup {NoneV, "OSError", "Exception"}

SyncDetectEncoding(outcome) ==
    IF outcome \in ChardetNames THEN outcome ELSE NoneV

\* The loop that removes duplicates and None while preserving order.
RECURSIVE Unique(_, _)
Unique(encodings, acc) ==
    IF encodings = <<>> THEN acc
    ELSE LET enc == Head(encodings) IN
         Unique(Tail(encodings),
                IF enc # NoneV /\ \A i \in 1..Len(acc) : acc[i] # enc
                THEN Append(acc, enc) ELSE acc)

\* encodings_to_try, then unique_encodings.
UniqueEncodings(detected) ==
    Unique((IF detected # NoneV THEN <<detected>> ELSE <<>>)
           \o COMMON_ENCODINGS, <<>>)

\* _sync_read_csv_with_encoding(file_path, encoding): the rows of the file
\* ("rows"), a table of other text ("garbled"), or None after a decode or
\* parse error.
SyncReadCsvWithEncoding(file, encoding) ==
    IF Codec(encoding) = file.encoding THEN "rows"
    ELSE IF Codec(encoding) \in file.garbledBy THEN "garbled"
    ELSE NoneV

\* read_csv_file(file_path) is called, up to `await detect_encoding`.
ReadCall(file) ==
    /\ rpc = "idle"
    /\ constructed = "Path"
    /\ rpc' = "detect"
    /\ csv_file' = file
    /\ UNCHANGED <<detected_encoding, unique_encodings, tried, rout, rret>>
    /\ UNCHANGED <<constructed, retry_attempts, filterVars, poolVars, gatherVars, docVars, listVars, singleVars,
                   classifyVars, translatorVars>>

\* detect_encoding returned: the candidate list is built, up to the first
\* `await asyncio.to_thread(_sync_read_csv_with_encoding, ...)`.
ReadDetected(outcome) ==
    /\ rpc = "detect"
    /\ detected_encoding' = SyncDetectEncoding(outcome)
    /\ unique_encodings' = UniqueEncodings(SyncDetectEncoding(outcome))
    /\ rpc' = "try"
    /\ UNCHANGED <<csv_file, tried, rout, rret>>
    /\ UNCHANGED <<constructed, retry_attempts, filterVars, poolVars, gatherVars, docVars, listVars, singleVars,
                   classifyVars, translatorVars>>

\* One _sync_read_csv_with_encoding call is done: its table is returned as
\* records, or the loop goes to the next candidate, or, after the last one,
\* None is returned.
ReadTry ==
    /\ rpc = "try"
    /\ LET encoding == unique_encodings[Len(tried) + 1]
           df == SyncReadCsvWithEncoding(csv_file, encoding)
       IN
       /\ tried' = Append(tried, encoding)
       /\ IF df # NoneV
          THEN /\ rpc' = "done"
               /\ rout' = "return"
               /\ rret' = df
          ELSE IF Len(tried) + 1 = Len(unique_encodings)
          THEN /\ rpc' = "done"
               /\ rout' = "return"
               /\ rret' = NoneV
          ELSE UNCHANGED <<rpc, rout, rret>>
    /\ UNCHANGED <<csv_file, detected_encoding, unique_encodings>>
    /\ UNCHANGED <<constructed, retry_attempts, filterVars, poolVars, gatherVars, docVars, listVars, singleVars,
                   classifyVars, translatorVars>>

\* ------------------------------------------------- the clients of the calls
\* Every top-level call runs inside `async with self._get_client()`, and
\* _get_client builds a new httpx.AsyncClient with its own Limits each time
\* it is entered.  A call awaits one client.get at a time, so its client
\* holds no connection, one connection carrying a request, or one connection
\* kept alive after a response.
\* httpx.Limits(max_connections=15, max_keepalive_connections=7)
max_connections == 15

max_keepalive_connections == 7

\* The pool of one client opens a connection while it holds fewer than
\* max_connections of them.
PoolHasRoom(open) == open < max_connections

\* The pool of one client keeps a released connection while it holds fewer
\* than max_keepalive_connections idle ones.
KeepAliveHasRoom(kept) == kept < max_keepalive_connections

\* No call is inside `async with self._get_client()`.
NoClient == clients + inUse + keptAlive = 0

\* One more call enters `async with self._get_client()`: a client is built.
GetClient ==
    /\ constructed = "EdinetAPIFetcher"
    /\ clients + inUse + keptAlive < MaxCalls
    /\ clients' = clients + 1
    /\ UNCHANGED <<inUse, keptAlive>>
    /\ UNCHANGED <<constructed, retry_attempts, filterVars, gatherVars, readerVars,
                   translatorVars, docVars, listVars, singleVars,
                   classifyVars>>

\* A call awaits client.get: its client reuses the connection it kept alive,
\* or opens one if its own pool, which holds none, has room.
ClientGet(reuse) ==
    /\ IF reuse
       THEN /\ keptAlive > 0
            /\ keptAlive' = keptAlive - 1
            /\ UNCHANGED clients
       ELSE /\ clients > 0
            /\ PoolHasRoom(0)
            /\ clients' = clients - 1
            /\ UNCHANGED keptAlive
    /\ inUse' = inUse + 1
    /\ UNCHANGED <<constructed, retry_attempts, filterVars, gatherVars, readerVars,
                   translatorVars, docVars, listVars, singleVars,
                   classifyVars>>

\* client.get is over: the connection goes back to the pool of its client,
\* which keeps it alive if the server allows it and the pool has room, and
\* closes it otherwise.
ClientGot(keepAlive) ==
    /\ inUse > 0
    /\ inUse' = inUse - 1
    /\ IF keepAlive /\ KeepAliveHasRoom(0)
       THEN /\ keptAlive' = keptAlive + 1
            /\ UNCHANGED clients
       ELSE /\ clients' = clients + 1
            /\ UNCHANGED keptAlive
    /\ UNCHANGED <<constructed, retry_attempts, filterVars, gatherVars, readerVars,
                   translatorVars, docVars, listVars, singleVars,
                   classifyVars>>

\* A call leaves `async with self._get_client()`: its client is closed, and
\* with it the connection it kept alive, if any.
CloseClient(kept) ==
    /\ IF kept
       THEN /\ keptAlive > 0
            /\ keptAlive' = keptAlive - 1
            /\ UNCHANGED clients
       ELSE /\ clients > 0
            /\ clients' = clients - 1
            /\ UNCHANGED keptAlive
    /\ UNCHANGED inUse
    /\ UNCHANGED <<constructed, retry_attempts, filterVars, gatherVars, readerVars,
                   translatorVars, docVars, listVars, singleVars,
                   classifyVars>>

\* ------------------------------------- concurrent calls on one fetcher
\* A caller runs several top-level calls on one fetcher as concurrent tasks
\* (asyncio.gather or create_task).  A task runs from one await to the next
\* without interruption; between two of its steps any other task may run.
\* The server's answer to a document request comes with what zipfile makes
\* of its body.
Tasks == 1..MaxTasks

TaskCall(name, roe, last) ==
    [name |-> name, raise_on_error |-> roe, date_end |-> last]

NoTaskCall == TaskCall("none", FALSE, 0)

\* get_document with either raise_on_error, fetch_single_doc_list for day 1,
\* fetch_date_interval_doc_list from day 1 to day 2.
TaskCalls ==
    {TaskCall("get_document", roe, 0) : roe \in BOOLEAN}
    \cup {TaskCall("fetch_single_doc_list", FALSE, 1)}
    \cup {TaskCall("fetch_date_interval_doc_list", FALSE, 2)}

Answer(resp, arch) == [resp |-> resp, arch |-> arch]

\* The answers the concurrent calls get: to a document request a retryable
\* status, a non-retryable one, or a readable archive; to a listing request
\* a server error or a listing with one supported entry.
Answers(call) ==
    IF call.name = "get_document"
    THEN {Answer(Resp("ok", 503, "none"), NoArchive),
          Answer(Resp("ok", NOT_FOUND, "none"), NoArchive),
          Answer(Resp("ok", SUCCESS, "bytes"), Archive("ok", <<"data">>))}
    ELSE {Answer(ListResp("ok", SERVER_ERROR, FALSE, NoBody), NoArchive),
          Answer(ListResp("ok", SUCCESS, TRUE,
                          Body(TRUE, TRUE, <<Entry("120", "filer", TRUE)>>)),
                 NoArchive)}

\* What a call hands to its caller: the exception it raised, or the message
\* it returned (one field per message class).
Outcome(out, exc, doc, single, multi) ==
    [out |-> out, exc |-> exc, doc |-> doc, single |-> single,
     multi |-> multi]

NoOutcome == Outcome("none", NoExc, NoMsg, NoSingleMessage, NoMultiMessage)

\* The locals of one running call: its position, the attempts of the current
\* retry context, the day of the loop, the status and body of the listing
\* response, the downloaded archive, the res dict, and how it ended.
Locals(pc, made, cursor, status, raw, arch, r, outcome) ==
    [pc |-> pc, made |-> made, date_cursor |-> cursor, status |-> status,
     raw_data |-> raw, archive |-> arch, res |-> r, outcome |-> outcome]

NoLocals == Locals("idle", 0, 1, 0, NoBody, NoArchive, EmptyRes, NoOutcome)

\* The locals when the call reaches its first client.get.
StartLocals(call) == [NoLocals EXCEPT !.pc = "fetch"]

Ended(f, outcome) == [f EXCEPT !.pc = "done", !.outcome = outcome]

DocOutcome(h) ==
    Outcome(h.out, IF h.out = "raise" THEN h.exc ELSE NoExc,
            IF h.out = "return" THEN FailMsg(h.message) ELSE NoMsg,
            NoSingleMessage, NoMultiMessage)

\* process_zip_file over the downloaded archive: extraction, discovery, the
\* reads and the classification, each with its failure message.
ProcessZipFile(arch) ==
    IF ExtractFailure(arch) # NoneV
    THEN FailMsg(ExtractFailure(arch))
    ELSE IF FindCsvPaths(arch.files) = <<>>
    THEN FailMsg("No CSV files found in zip")
    ELSE LET raw == RawCsvData(arch.files, ValidCsvPaths(arch.files)) IN
         IF \E i \in 1..Len(raw) : raw[i].data = "badrow"
         THEN FailMsg("Critical error processing zip file")
         ELSE Msg("success", NoneV, Len(raw), FileNames(raw))

\* The end of the date loop: the DocListMultiMessage is built from res.
MultiOutcome(r) ==
    IF ValidMultiMessage(r)
    THEN Outcome("return", NoExc, NoMsg, NoSingleMessage, MultiMessage(r))
    ELSE Outcome("raise", Exc("ValidationError", "status_code", NoStatus),
                 NoMsg, NoSingleMessage, NoMultiMessage)

\* A client.get of the call completes with the answer, and the call runs up
\* to its next await: the attempt body, then a retry, the except clause, or
\* the code that follows _fetch_doc / _fetch_list.
Receive(call, f, answer, attempts) ==
    LET made == f.made + 1 IN
    IF call.name = "get_document"
    THEN LET o == FetchDocAttempt(answer.resp) IN
         IF o.kind = "raise"
         THEN IF ShouldRetry(o.exc.cls, made, attempts, TRUE)
              THEN [f EXCEPT !.made = made]
              ELSE Ended([f EXCEPT !.made = made],
                         DocOutcome(GetDocumentExcept(o.exc,
                                                      call.raise_on_error)))
         ELSE IF IsBytes(o.content)
         THEN [f EXCEPT !.made = made, !.pc = "process",
                        !.archive = answer.arch]
         ELSE Ended([f EXCEPT !.made = made],
                    DocOutcome(Handled("return", NoExc,
                                       "Document parsing failed")))
    ELSE LET o == FetchListAttempt(answer.resp) IN
         IF o.kind = "raise" /\ ShouldRetry(o.exc.cls, made, attempts, TRUE)
         THEN [f EXCEPT !.made = made]
         ELSE IF call.name = "fetch_single_doc_list"
         THEN IF o.kind = "raise"
              THEN LET s == SingleExcept(o.exc) IN
                   Ended([f EXCEPT !.made = made],
                         Outcome(s.out, s.exc, NoMsg, s.msg, NoMultiMessage))
              ELSE [f EXCEPT !.made = made, !.pc = "filter",
                             !.raw_data = o.body,
                             !.status = answer.resp.status]
         ELSE IF o.kind = "raise"
              THEN [f EXCEPT !.made = made, !.pc = "sleep",
                             !.res = Skipping(@, f.date_cursor, o.exc)]
              ELSE IF o.body.metaOk
              THEN [f EXCEPT !.made = made, !.pc = "filter",
                             !.raw_data = o.body,
                             !.res = Fetched(@, f.date_cursor,
                                             answer.resp.status)]
              ELSE [f EXCEPT
                      !.made = made, !.pc = "sleep", !.raw_data = o.body,
                      !.res = Skipping(
                                [@ EXCEPT !.status_code =
                                     Append(@, Item(f.date_cursor,
                                                    answer.resp.status))],
                                f.date_cursor,
                                Exc("KeyError", "metadata", NoStatus))]

\* An await that is no client.get completes (process_zip_file, _filter_docs,
\* asyncio.sleep) and the call runs up to its next await.
Resume(call, f) ==
    IF call.name = "get_document"
    THEN Ended(f, Outcome("return", NoExc, ProcessZipFile(f.archive),
                          NoSingleMessage, NoMultiMessage))
    ELSE IF call.name = "fetch_single_doc_list"
    THEN LET s == SingleTryBody(f.raw_data, f.status) IN
         Ended(f, Outcome(s.out, s.exc, NoMsg, s.msg, NoMultiMessage))
    ELSE IF f.pc = "filter"
    THEN LET d == FilterDocs(f.raw_data.docs) IN
         IF d.kind = "raise"
         THEN [f EXCEPT !.pc = "sleep",
                        !.res = Skipping(@, f.date_cursor,
                                         Exc("ValidationError",
                                             "DoclistResult", NoStatus))]
         ELSE [f EXCEPT !.pc = "sleep",
                        !.res = [@ EXCEPT !.results =
                                    ExtendResults(@, f.date_cursor, d.docs)]]
    ELSE IF f.date_cursor + 1 <= call.date_end
    THEN [f EXCEPT !.pc = "fetch", !.made = 0,
                   !.date_cursor = f.date_cursor + 1, !.raw_data = NoBody]
    ELSE Ended([f EXCEPT !.date_cursor = f.date_cursor + 1],
               MultiOutcome(f.res))

\* The awaits of a call that are no client.get.
ResumePoints(call) ==
    IF call.name = "get_document" THEN {"process"}
    ELSE IF call.name = "fetch_single_doc_list" THEN {"filter"}
    ELSE IF call.name = "fetch_date_interval_doc_list" THEN {"filter", "sleep"}
    ELSE {}

FrameOnSelf(t) == 1

\* Where the locals of task t live: every call of a coroutine function has a
\* frame of its own, and the fetchers keep nothing of a call on self.
Frame(t) == t

\* A caller starts the next task with one of the calls; the call runs up to
\* its first client.get.
GatherCall(t, call) ==
    /\ constructed = "EdinetAPIFetcher"
    /\ tasks[t] = NoTaskCall
    /\ \A u \in Tasks : u < t => tasks[u] # NoTaskCall
    /\ tasks' = [tasks EXCEPT ![t] = call]
    /\ frames' = [frames EXCEPT ![Frame(t)] = StartLocals(call)]
    /\ UNCHANGED <<served, returned>>
    /\ UNCHANGED <<constructed, retry_attempts, filterVars, poolVars, readerVars,
                   translatorVars, docVars, listVars, singleVars,
                   classifyVars>>

\* What the caller of task t has after a step that left its locals as f.
Handed(t, f) ==
    [returned EXCEPT ![t] = IF f.pc = "done" THEN f.outcome ELSE @]

\* A client.get of task t completes.
GatherReceive(t, answer) ==
    /\ tasks[t] # NoTaskCall
    /\ returned[t] = NoOutcome
    /\ frames[Frame(t)].pc = "fetch"
    /\ LET f == Receive(tasks[t], frames[Frame(t)], answer, retry_attempts)
       IN /\ frames' = [frames EXCEPT ![Frame(t)] = f]
          /\ returned' = Handed(t, f)
    /\ served' = [served EXCEPT ![t] = Append(@, answer)]
    /\ UNCHANGED tasks
    /\ UNCHANGED <<constructed, retry_attempts, filterVars, poolVars, readerVars,
                   translatorVars, docVars, listVars, singleVars,
                   classifyVars>>

\* Another await of task t completes.
GatherResume(t) ==
    /\ tasks[t] # NoTaskCall
    /\ returned[t] = NoOutcome
    /\ frames[Frame(t)].pc \in ResumePoints(tasks[t])
    /\ LET f == Resume(tasks[t], frames[Frame(t)])
       IN /\ frames' = [frames EXCEPT ![Frame(t)] = f]
          /\ returned' = Handed(t, f)
    /\ UNCHANGED <<tasks, served>>
    /\ UNCHANGED <<constructed, retry_attempts, filterVars, poolVars, readerVars,
                   translatorVars, docVars, listVars, singleVars,
                   classifyVars>>

\* No task has been started.
NoGather == \A t \in Tasks : tasks[t] = NoTaskCall

\* ------------------------------------------- _filter_docs and _translate
\* The entries of the listings handed to _filter_docs: those of EntryKinds
\* and one of another filer.
FilterEntryKinds == EntryKinds \cup {Entry("160", "other filer", TRUE)}

FilterEntrySeqs == UNION {[1..n -> FilterEntryKinds] : n \in 0..MaxDocs}

\* DoclistResult(**doc): filer_name is the filerName of the entry, and
\* filer_name_eng has its default None, written <<>>; a text t is <<t>>.
NewDoclistResult(doc) ==
    [filer_name |-> doc.filerName, doc_type_code |-> doc.docTypeCode,
     filer_name_eng |-> <<>>]

GatherDoneAny(ts) == \E k \in 1..Len(ts) : ts[k] = "done"

\* `await asyncio.gather(*tasks)` is over without an exception when every
\* task is done.
GatherDone(ts) == \A k \in 1..Len(ts) : ts[k] = "done"

\* _filter_docs(docs, translator) runs up to `await asyncio.gather(*tasks)`:
\* a ValidationError leaves it at once, else one _translate task per kept
\* entry is pending.
FilterCall(docs) ==
    /\ fpc = "idle"
    /\ constructed = "EdinetAPIFetcher"
    /\ LET f == FilterDocs(docs) IN
       IF f.kind = "raise"
       THEN /\ fpc' = "done"
            /\ fout' = "raise"
            /\ UNCHANGED <<filtered, translations>>
       ELSE /\ fpc' = "gather"
            /\ filtered' = [k \in 1..Len(f.docs) |->
                               NewDoclistResult(f.docs[k])]
            /\ translations' = [k \in 1..Len(f.docs) |-> "pending"]
            /\ UNCHANGED fout
    /\ UNCHANGED finished
    /\ UNCHANGED <<constructed, retry_attempts, docVars, listVars, singleVars,
                   classifyVars, translatorVars, readerVars, poolVars,
                   gatherVars>>

\* _translate(doc, translator) of task k resumes with the text that
\* translator.translate(doc.filer_name) returned and assigns it to
\* doc.filer_name_eng.  A task goes on when gather has raised for another.
FilterTranslated(k) ==
    /\ fpc \in {"gather", "done"}
    /\ translations[k] = "pending"
    /\ translations' = [translations EXCEPT ![k] = "done"]
    /\ filtered' = [filtered EXCEPT ![k].filer_name_eng =
                                       <<Translate(filtered[k].filer_name)>>]
    /\ finished' = Append(finished, k)
    /\ UNCHANGED <<fpc, fout>>
    /\ UNCHANGED <<constructed, retry_attempts, docVars, listVars, singleVars,
                   classifyVars, translatorVars, readerVars, poolVars,
                   gatherVars>>

\* translator.translate raised in task k (a translator that lets an error
\* through): nothing is assigned, and gather, when it is still awaited,
\* raises the error out of _filter_docs while the other tasks go on.
FilterTranslateRaises(k) ==
    /\ fpc \in {"gather", "done"}
    /\ translations[k] = "pending"
    /\ translations' = [translations EXCEPT ![k] = "raised"]
    /\ IF fpc = "gather"
       THEN fpc' = "done" /\ fout' = "raise"
       ELSE UNCHANGED <<fpc, fout>>
    /\ UNCHANGED <<filtered, finished>>
    /\ UNCHANGED <<constructed, retry_attempts, docVars, listVars, singleVars,
                   classifyVars, translatorVars, readerVars, poolVars,
                   gatherVars>>

\* gather is over: _filter_docs returns `filtered`.
FilterReturn ==
    /\ fpc = "gather"
    /\ GatherDone(translations)
    /\ fpc' = "done"
    /\ fout' = "return"
    /\ UNCHANGED <<filtered, translations, finished>>
    /\ UNCHANGED <<constructed, retry_attempts, docVars, listVars, singleVars,
                   classifyVars, translatorVars, readerVars, poolVars,
                   gatherVars>>

\* ------------------------------------------------------------ specification
\* An EdinetAPIFetcher was constructed with some retry_attempts, or a
\* DocProcessor with some custom_fields, or get_translator gave one of the
\* translators, or there is the Path of an extracted file; no call has been
\* made.
Init ==
    /\ \/ /\ constructed = "EdinetAPIFetcher"
          /\ retry_attempts \in 1..MaxAttempts
          /\ custom_fields = CustomFields(FALSE, {})
       \/ /\ constructed \in {"GoogleTranslator", "BypassTranslator", "Path"}
          /\ retry_attempts = 1
          /\ custom_fields = CustomFields(FALSE, {})
       \/ /\ constructed = "DocProcessor"
          /\ retry_attempts = 1
          /\ custom_fields \in CustomFieldChoices
    /\ raise_on_error = FALSE
    /\ unlinkFails = FALSE
    /\ dpc = "idle"
    /\ docRequests = 0
    /\ lastResp = NoResp
    /\ lastAttempt = NoAttempt
    /\ budgetLeft = TRUE
    /\ archive = NoArchive
    /\ readPaths = <<>>
    /\ readResults = <<>>
    /\ rawList = <<>>
    /\ tmpZip = FALSE
    /\ tmpDir = FALSE
    /\ everTmpZip = FALSE
    /\ orphanExtract = FALSE
    /\ interrupted = "none"
    /\ dout = "none"
    /\ dexc = NoExc
    /\ dres = NoMsg
    /\ lpc = "idle"
    /\ date_from = 1
    /\ date_end = 1
    /\ date_cursor = 1
    /\ listRequests = 0
    /\ lastListResp = NoListResp
    /\ lastListAttempt = NoListAttempt
    /\ listBudgetLeft = TRUE
    /\ raw_data = NoBody
    /\ res = EmptyRes
    /\ failedDates = {}
    /\ fetchedDates = {}
    /\ keptDocs = <<>>
    /\ visited = <<>>
    /\ pauses = 0
    /\ lout = "none"
    /\ lexc = NoExc
    /\ lres = NoMultiMessage
    /\ spc = "idle"
    /\ single_date = BadDate
    /\ singleRequests = 0
    /\ lastSingleResp = NoListResp
    /\ lastSingleAttempt = NoListAttempt
    /\ singleBudgetLeft = TRUE
    /\ single_raw = NoBody
    /\ sout = "none"
    /\ sexc = NoExc
    /\ sres = NoSingleMessage
    /\ cpc = "idle"
    /\ raw_csv_data = <<>>
    /\ fileIdx = 1
    /\ rowIdx = 1
    /\ file_filtered_records = <<>>
    /\ filtered_results = <<>>
    /\ metadata_container = EmptyContainer
    /\ business_description = <<>>
    /\ translateCalls = <<>>
    /\ cout = "none"
    /\ cret = NoClassifyResult
    /\ tpc = "idle"
    /\ input_text = <<>>
    /\ result_text = <<>>
    /\ backendFailed = FALSE
    /\ tout = "none"
    /\ tret = <<>>
    /\ rpc = "idle"
    /\ csv_file = NoCsvFile
    /\ detected_encoding = NoneV
    /\ unique_encodings = <<>>
    /\ tried = <<>>
    /\ rout = "none"
    /\ rret = NoneV
    /\ clients = 0
    /\ inUse = 0
    /\ keptAlive = 0
    /\ tasks = [t \in Tasks |-> NoTaskCall]
    /\ frames = [t \in Tasks |-> NoLocals]
    /\ served = [t \in Tasks |-> <<>>]
    /\ returned = [t \in Tasks |-> NoOutcome]
    /\ fpc = "idle"
    /\ filtered = <<>>
    /\ translations = <<>>
    /\ finished = <<>>
    /\ fout = "none"

\* None of the calls that are followed alone has been started.
NoSingleCall ==
    /\ dpc = "idle"
    /\ lpc = "idle"
    /\ spc = "idle"
    /\ cpc = "idle"
    /\ tpc = "idle"
    /\ rpc = "idle"
    /\ fpc = "idle"

\* No top-level call has been started.
NoCall == NoSingleCall /\ NoGather /\ NoClient

Next ==
    \/ /\ NoCall
       /\ \E roe \in BOOLEAN, uf \in BOOLEAN : DocCall(roe, uf)
    \/ /\ dpc = "fetch"
       /\ \E resp \in DocResponses, budget \in BOOLEAN :
             \E arch \in DocPayloads(resp) : DocAttempt(resp, budget, arch)
    \/ DocExtract
    \/ /\ dpc = "read"
       /\ \E k \in 1..Len(readResults) : DocReadFile(k)
    \/ DocRead
    \/ DocClassify
    \/ /\ dpc \notin {"idle", "done"}
       /\ \E kind \in InterruptClasses : DocInterrupt(kind)
    \/ /\ orphanExtract
       /\ \E recreated \in BOOLEAN : OrphanExtractEnds(recreated)
    \/ /\ NoCall
       /\ \E first \in 1..MaxDays, last \in 1..MaxDays : ListCall(first, last)
    \/ /\ lpc = "fetch"
       /\ \E resp \in ListResponses, budget \in BOOLEAN : ListAttempt(resp, budget)
    \/ ListFilter
    \/ ListSleep
    \/ /\ NoCall
       /\ \E date \in SingleDates : SingleCall(date)
    \/ /\ spc = "fetch"
       /\ \E resp \in ListResponses, budget \in BOOLEAN :
             SingleAttempt(resp, budget)
    \/ SingleFilter
    \/ /\ NoCall
       /\ constructed = "DocProcessor"
       /\ \E raw \in RawCsvInputs : ClassifyCall(raw)
    \/ ClassifyRow
    \/ ClassifyTranslated
    \/ ClassifyFileEnd
    \/ ClassifyEnd
    \/ /\ NoCall
       /\ \E text \in InputTexts : TranslateCall(text)
    \/ /\ tpc = "enter"
       /\ \E cls \in BackendErrors \cup {"none"} : TranslatorEnter(cls)
    \/ /\ tpc = "translate"
       /\ \E cls \in BackendErrors \cup {"none"}, text \in BackendTexts :
             TranslatorTranslate(cls, text)
    \/ /\ tpc = "exit"
       /\ \E cls \in BackendErrors \cup {"none"} : TranslatorExit(cls)
    \/ /\ NoCall
       /\ constructed = "Path"
       /\ \E file \in CsvFiles : ReadCall(file)
    \/ /\ rpc = "detect"
       /\ \E outcome \in DetectOutcomes : ReadDetected(outcome)
    \/ ReadTry
    \/ /\ NoSingleCall /\ NoGather
       /\ GetClient
    \/ /\ inUse < clients + inUse + keptAlive
       /\ \E reuse \in BOOLEAN : ClientGet(reuse)
    \/ /\ inUse > 0
       /\ \E keepAlive \in BOOLEAN : ClientGot(keepAlive)
    \/ /\ inUse < clients + inUse + keptAlive
       /\ \E kept \in BOOLEAN : CloseClient(kept)
    \/ /\ NoSingleCall /\ NoClient
       /\ \E t \in Tasks, call \in TaskCalls : GatherCall(t, call)
    \/ /\ ~NoGather
       /\ \E t \in Tasks : \E answer \in Answers(tasks[t]) :
             GatherReceive(t, answer)
    \/ /\ ~NoGather
       /\ \E t \in Tasks : GatherResume(t)
    \/ /\ NoCall
       /\ \E docs \in FilterEntrySeqs : FilterCall(docs)
    \/ /\ fpc # "idle"
       /\ \E k \in 1..Len(translations) : FilterTranslated(k)
    \/ /\ fpc # "idle"
       /\ \E k \in 1..Len(translations) : FilterTranslateRaises(k)
    \/ FilterReturn

Spec == Init /\ [][Next]_vars


\* ------------------------------------------------------------------ claims
\* What the claims call a failure, read off the inputs of the call.
NonRetryableStatuses == {AUTH_ERROR, BAD_REQUEST, NOT_FOUND}

\* A 429 response, a 5xx response or a network/timeout failure.
RetryableDocResp ==
    \/ lastResp.transport \in {"httpx.NetworkError", "httpx.TimeoutException"}
    \/ /\ lastResp.transport = "ok"
       /\ (lastResp.status = RATE_LIMIT_ERROR \/ lastResp.status >= SERVER_ERROR)

RetryableListResp ==
    \/ lastListResp.transport \in {"httpx.NetworkError", "httpx.TimeoutException"}
    \/ /\ lastListResp.transport = "ok"
       /\ (lastListResp.status = RATE_LIMIT_ERROR
           \/ lastListResp.status >= SERVER_ERROR)

\* _fetch_doc ended with an error.
DocFetchFailed == dpc = "done" /\ lastAttempt.kind = "raise"

\* The payload was processed and is a malformed archive, an archive without
\* data files, or holds a file whose rows fail classification.
DocExtractionFailed ==
    /\ dpc = "done"
    /\ everTmpZip
    /\ \/ archive.zip # "ok"
       \/ FindCsvPaths(archive.files) = <<>>
       \/ \E i \in 1..Len(archive.files) : archive.files[i] = "badrow"

C3_NonRetryableNeverRetried ==
    /\ (lastResp.transport = "ok" /\ lastResp.status \in NonRetryableStatuses)
       => /\ dpc = "done"
          /\ lastAttempt.kind = "raise"
          /\ dout = "raise" \/ dres.extract_status = "fail"
    /\ (lastListResp.transport = "ok"
        /\ lastListResp.status \in NonRetryableStatuses)
       => /\ lpc # "fetch"
          /\ lastListAttempt.kind = "raise"
          /\ date_cursor \in failedDates

\* A 404 that ended a _fetch_doc call which had attempts left.
C3_Witness ==
    /\ lastResp.status = NOT_FOUND
    /\ docRequests < retry_attempts
    /\ dpc = "done"

\* C4: in both fetch flows, an attempt that ended with 429, 5xx or a
\* network/timeout failure while attempts and budget were left is followed by
\* another request; when nothing is left the call fails.
C4_RetryableAreRetried ==
    /\ (/\ docRequests > 0
        /\ RetryableDocResp
        /\ interrupted = "none")
       => IF docRequests < retry_attempts /\ budgetLeft
          THEN dpc = "fetch"
          ELSE dpc = "done" /\ lastAttempt.kind = "raise"
    /\ (listRequests > 0 /\ RetryableListResp)
       => IF listRequests < retry_attempts /\ listBudgetLeft
          THEN lpc = "fetch"
          ELSE lpc # "fetch" /\ lastListAttempt.kind = "raise"

\* The _fetch_doc half of C4, which the code keeps.
DocRetryableAreRetried ==
    (/\ docRequests > 0
     /\ RetryableDocResp
     /\ interrupted = "none")
    => IF docRequests < retry_attempts /\ budgetLeft
       THEN dpc = "fetch"
       ELSE dpc = "done" /\ lastAttempt.kind = "raise"

\* C5: one _fetch_doc or _fetch_list call issues at most retry_attempts
\* requests, and after the retry_attempts-th attempt it is over.
C5_AttemptsBounded ==
    /\ docRequests <= retry_attempts
    /\ listRequests <= retry_attempts
    /\ dpc = "fetch" => docRequests < retry_attempts
    /\ lpc = "fetch" => listRequests < retry_attempts

\* A _fetch_doc call that used every attempt on retryable failures.
C5_Witness ==
    /\ retry_attempts > 1
    /\ docRequests = retry_attempts
    /\ RetryableDocResp
    /\ budgetLeft
    /\ dpc = "done"

\* The dates that have an item in a per-date list.
ItemDates(items) == {items[i].date : i \in 1..Len(items)}

\* The entries a message holds for a date, in order.
RECURSIVE EntriesOf(_, _)
EntriesOf(date, items) ==
    IF items = <<>> THEN <<>>
    ELSE (IF Head(items).date = date THEN <<Head(items).value>> ELSE <<>>)
         \o EntriesOf(date, Tail(items))

\* C6: a ranged call in which the request of some date failed returns a
\* message; the message records each failed date with a status code and a
\* message text and holds the kept entries of every date that succeeded.
C6_FailedDateIsRecorded ==
    (lpc = "done" /\ failedDates # {})
    => /\ lout = "return"
       /\ \A d \in failedDates :
             /\ \E i \in 1..Len(lres.status_code) :
                   /\ lres.status_code[i].date = d
                   /\ lres.status_code[i].value # NoStatus
             /\ d \in ItemDates(lres.message)
       /\ \A i \in 1..Len(keptDocs) :
             EntriesOf(keptDocs[i].date, lres.results) = keptDocs[i].value

\* C7: _fetch_doc maps the status of an attempt: 200 success; 400 and 404 a
\* client error with the status; 401 an auth error; 429 a rate-limit error;
\* 500 and above a server error with the status; anything else an error.
C7_DocStatusMapping ==
    lastResp.transport = "ok"
    => LET st == lastResp.status
           o == lastAttempt
       IN /\ st = 200 => o.kind = "return"
          /\ st \in {400, 404}
             => /\ o.kind = "raise"
                /\ o.exc.cls = "EdinetClientError"
                /\ o.exc.status_code = st
          /\ st = 401 => o.kind = "raise" /\ o.exc.cls = "EdinetAPIAuthError"
          /\ st = 429
             => o.kind = "raise" /\ o.exc.cls = "EdinetAPIRateLimitError"
          /\ st >= 500
             => /\ o.kind = "raise"
                /\ o.exc.cls = "EdinetServerError"
                /\ o.exc.status_code = st
          /\ (st \notin {200, 400, 401, 404, 429} /\ st < 500)
             => o.kind = "raise" /\ o.exc.cls \in EdinetErrorClasses

\* An attempt answered with exactly 500.
C7_Witness ==
    /\ lastResp.transport = "ok"
    /\ lastResp.status = 500
    /\ lastAttempt.exc.cls = "EdinetServerError"

\* C8: the error that leaves _fetch_list has the class of the mapping: 401
\* an auth error, 429 a rate-limit error, 400/404 a client error with the
\* status, 5xx a server error, a network/timeout failure a network error.
C8_ListErrorClasses ==
    (listRequests > 0 /\ lastListAttempt.kind = "raise")
    => LET st == lastListResp.status
           e == lastListAttempt.exc
       IN IF lastListResp.transport = "ok"
          THEN /\ st = 401 => e.cls = "EdinetAPIAuthError"
               /\ st = 429 => e.cls = "EdinetAPIRateLimitError"
               /\ st \in {400, 404}
                  => e.cls = "EdinetClientError" /\ e.status_code = st
               /\ st >= 500 => e.cls = "EdinetServerError"
          ELSE lastListResp.transport
                  \in {"httpx.NetworkError", "httpx.TimeoutException"}
               => e.cls \in {"EdinetConnectionError", "httpx.NetworkError",
                             "httpx.TimeoutException"}

DateOrdered(items) ==
    \A i \in 1..Len(items), j \in 1..Len(items) :
       i < j => items[i].date <= items[j].date

\* C11: a ranged call starts its request sequences for date_from,
\* date_from + 1, ... in that order, one per date, the last one for the date
\* at the cursor; the entries of results and of the per-date status lists
\* are in date order, in res and in the returned message.
C11_DatesInOrder ==
    /\ \A i \in 1..Len(visited) : visited[i] = date_from + i - 1
    /\ lpc \in {"fetch", "filter", "sleep"}
       => visited # <<>> /\ visited[Len(visited)] = date_cursor
    /\ DateOrdered(res.results)
    /\ DateOrdered(res.status_code)
    /\ DateOrdered(res.fetch_status)
    /\ DateOrdered(res.message)
    /\ lout = "return"
       => /\ lres.results = res.results
          /\ DateOrdered(lres.results)
          /\ DateOrdered(lres.status_code)
          /\ DateOrdered(lres.message)
          /\ ItemDates(lres.status_code) = {visited[i] : i \in 1..Len(visited)}

\* A returned message with entries of two different dates.
C11_Witness ==
    /\ lpc = "done"
    /\ lout = "return"
    /\ Len(visited) >= 2
    /\ \E i \in 1..Len(lres.results), j \in 1..Len(lres.results) :
          lres.results[i].date < lres.results[j].date

\* An entry with a supported docTypeCode and a filer name.
Recognized(doc) ==
    doc.docTypeCode \in SUPPORTED_DOC_TYPES /\ doc.filerName # NoneV

AllRecognized(docs) == \A i \in 1..Len(docs) : Recognized(docs[i])

\* What _filter_docs returns for a listing, <<>> when it raises.
Filtered(docs) ==
    IF FilterDocs(docs).kind = "return" THEN FilterDocs(docs).docs ELSE <<>>

\* C12: every entry _filter_docs returns for the listing at hand has a
\* supported docTypeCode and a filer name; so has every entry of a message
\* returned by fetch_single_doc_list and every entry collected by the ranged
\* call.
C12_OnlyRecognizedEntries ==
    /\ AllRecognized(Filtered(raw_data.docs))
    /\ AllRecognized(Filtered(single_raw.docs))
    /\ AllRecognized(sres.results)
    /\ \A i \in 1..Len(res.results) : Recognized(res.results[i].value)
    /\ \A i \in 1..Len(lres.results) : Recognized(lres.results[i].value)

\* fetch_single_doc_list returned fewer entries than the listing held: an
\* entry was filtered out and another was kept.
C12_Witness ==
    /\ spc = "done"
    /\ sout = "return"
    /\ Len(sres.results) > 0
    /\ Len(sres.results) < Len(single_raw.docs)
    /\ \E i \in 1..Len(single_raw.docs) : ~Recognized(single_raw.docs[i])

\* C13: for a well-formed date, a fetch_single_doc_list call whose
\* _fetch_list call failed (401, 429, 400/404, 5xx, network failure, after
\* the retries there were) returns a message with a status code and the text
\* of the error.
C13_SingleFailuresAreReturned ==
    (/\ spc = "done"
     /\ single_date # BadDate
     /\ lastSingleAttempt.kind = "raise")
    => /\ sout = "return"
       /\ sres.status_code # NoStatus
       /\ sres.message # NoneV
       /\ sres.message = lastSingleAttempt.exc.message

\* A 401 answer absorbed into a returned message.
C13_Witness ==
    /\ spc = "done"
    /\ lastSingleResp.transport = "ok"
    /\ lastSingleResp.status = AUTH_ERROR
    /\ sout = "return"
    /\ sres.status_code = 500

\* The files of the given kinds, in discovery order.
FilesOfKind(files, kinds) ==
    SelectIdx(files, 1, FileKinds \ kinds)

\* get_document handed the payload to process_zip_file, which returned.
ZipProcessed ==
    /\ dpc = "done"
    /\ everTmpZip
    /\ interrupted = "none"

\* C14: when the archive holds data files that cannot be read (no encoding
\* reads them, or their read raises) and no file whose rows fail
\* classification, process_zip_file returns "success" with the records of
\* exactly the files that were read, and counts those files.
C14_UnreadableFileIsSkipped ==
    (/\ ZipProcessed
     /\ archive.zip = "ok"
     /\ FilesOfKind(archive.files, {"unreadable", "readerr"}) # <<>>
     /\ FilesOfKind(archive.files, {"badrow"}) = <<>>)
    => /\ dout = "return"
       /\ dres.extract_status = "success"
       /\ dres.results = FilesOfKind(archive.files, {"data"})
       /\ dres.total_csv_files = Len(FilesOfKind(archive.files, {"data"}))

\* An unreadable file next to a file that was read.
C14_Witness ==
    /\ ZipProcessed
    /\ archive.zip = "ok"
    /\ FilesOfKind(archive.files, {"unreadable", "readerr"}) # <<>>
    /\ dres.extract_status = "success"
    /\ Len(dres.results) > 0

\* C15: when the downloaded bytes are no zip archive, process_zip_file
\* returns a "fail" message with the bad-archive text, no records and
\* total_csv_files 0; no file was read and none was classified.
C15_BadArchiveIsTerminal ==
    (ZipProcessed /\ archive.zip = "bad")
    => /\ dout = "return"
       /\ dres.extract_status = "fail"
       /\ dres.extract_message = "Bad ZIP file"
       /\ dres.results = <<>>
       /\ dres.total_csv_files = 0
       /\ readPaths = <<>>
       /\ rawList = <<>>

\* Bytes that are no archive were written to the temporary file and
\* process_zip_file returned.
C15_Witness ==
    /\ ZipProcessed
    /\ archive.zip = "bad"
    /\ lastAttempt.content = "bytes"
    /\ dout = "return"

\* The members of a sequence of file indices.
Members(paths) == {paths[i] : i \in 1..Len(paths)}

\* C16: no file under __MACOSX and no auditor report (jpaud...) has a read
\* started for it, is among the collected row sets, or is a source of the
\* returned records.
C16_ExcludedFilesNeverRead ==
    LET excluded == Members(FilesOfKind(archive.files, {"macosx", "jpaud"})) IN
    /\ Members(readPaths) \cap excluded = {}
    /\ Members(FileNames(rawList)) \cap excluded = {}
    /\ Members(dres.results) \cap excluded = {}

\* An archive with an auditor report or a __MACOSX file next to a data file
\* was processed to the end.
C16_Witness ==
    /\ ZipProcessed
    /\ FilesOfKind(archive.files, {"macosx", "jpaud"}) # <<>>
    /\ readPaths # <<>>
    /\ dres.extract_status = "success"
    /\ Len(dres.results) > 0

\* ---------------------------------------------------- classification claims
\* The records handed to process_raw_csv_data; each is identified by its
\* value, the position of its row in the document.
InputRecords ==
    UNION {{raw_csv_data[f].data[i] : i \in 1..Len(raw_csv_data[f].data)} :
           f \in 1..Len(raw_csv_data)}

\* The records kept so far, and the returned ones.
KeptRecords ==
    filtered_results \o file_filtered_records \o cret.records

Values(records) == {records[i].value : i \in 1..Len(records)}

\* How often a value was handed to the translator.
Occurrences(calls, value) ==
    Cardinality({i \in 1..Len(calls) : calls[i] = value})

\* The row has a context identifier that starts with FilingDate, Current or
\* Prior1.
KnownContext(r) ==
    /\ r.ctx \notin {NoneCell, <<>>}
    /\ r.ctx[1] \in {"FilingDate", "Current", "Prior1"}

MetaRow(r) == KnownContext(r) /\ r.elem \in META_PATTERNS

NarrativeRow(r) ==
    /\ KnownContext(r)
    /\ r.elem \notin META_PATTERNS
    /\ \E i \in 1..Len(r.elem) : r.elem[i] = "DescriptionOfBusiness"

PlainRow(r) == KnownContext(r) /\ ~MetaRow(r) /\ ~NarrativeRow(r)

\* The values in the metadata container.
MetaValues(container) == {container[t] : t \in DOMAIN container}

\* C17: every kept or returned record has an element identifier that is a
\* non-empty text and a context identifier that starts with FilingDate,
\* Current or Prior1; a row without such a context is in no record, in no
\* metadata value and was never handed to the translator.
C17_RecordsHaveKnownContext ==
    /\ \A i \in 1..Len(KeptRecords) :
          /\ KeptRecords[i].element_id \notin {NoneCell, <<>>}
          /\ KeptRecords[i].context_identifier \notin {NoneCell, <<>>}
          /\ KeptRecords[i].context_identifier[1]
                \in {"FilingDate", "Current", "Prior1"}
    /\ \A r \in InputRecords :
          ~KnownContext(r)
          => /\ r.value \notin Values(KeptRecords)
             /\ r.value \notin MetaValues(metadata_container)
             /\ StrValue(r.value) \notin MetaValues(cret.metadata)
             /\ Occurrences(translateCalls, r.value) = 0
             /\ \A i \in 1..Len(business_description) :
                   business_description[i] # Translate(r.value)

\* A returned record next to a row with an unrecognised or missing context.
C17_Witness ==
    /\ cout = "return"
    /\ Len(cret.records) > 0
    /\ \E r \in InputRecords : ~KnownContext(r)

\* C18: no kept or returned record has a META_PATTERNS tag as its element
\* identifier, whatever custom_fields is; when the call has returned, the
\* metadata holds under each tag the value of a row with that tag, every
\* metadata row has its tag in the metadata, and its value is in no record
\* and was not handed to the translator.
C18_MetaRowsOnlyInMetadata ==
    /\ \A i \in 1..Len(KeptRecords) :
          KeptRecords[i].element_id \notin META_PATTERNS
    /\ \A r \in InputRecords :
          MetaRow(r)
          => /\ r.value \notin Values(KeptRecords)
             /\ Occurrences(translateCalls, r.value) = 0
    /\ \A t \in DOMAIN metadata_container :
          \E r \in InputRecords :
             MetaRow(r) /\ r.elem = t /\ r.value = metadata_container[t]
    /\ cout = "return"
       => /\ \A t \in META_PATTERNS :
                cret.metadata[t] # NullValue <=> t \in DOMAIN metadata_container
          /\ \A r \in InputRecords :
                MetaRow(r) => cret.metadata[r.elem] # NullValue

\* A metadata row classified under an allow-list that names its tag.
C18_Witness ==
    /\ cout = "return"
    /\ custom_fields.given
    /\ \E r \in InputRecords :
          /\ MetaRow(r)
          /\ r.elem \in custom_fields.fields
          /\ cret.metadata[r.elem] # NullValue

\* C19: a narrative row is in no kept or returned record; the translator is
\* called with the values of narrative rows only, with none twice, and when
\* the call has returned it was called once for every narrative row.
C19_NarrativeTranslatedOnce ==
    /\ \A r \in InputRecords :
          /\ NarrativeRow(r) => r.value \notin Values(KeptRecords)
          /\ Occurrences(translateCalls, r.value)
                <= (IF NarrativeRow(r) THEN 1 ELSE 0)
          /\ (cout = "return" /\ NarrativeRow(r))
             => Occurrences(translateCalls, r.value) = 1
    /\ \A i \in 1..Len(translateCalls) :
          \E r \in InputRecords : r.value = translateCalls[i]

\* Two narrative rows classified under an allow-list that names them.
C19_Witness ==
    /\ cout = "return"
    /\ custom_fields.given
    /\ Len(translateCalls) = 2
    /\ \E r \in InputRecords :
          NarrativeRow(r) /\ r.elem \in custom_fields.fields

\* C20: when the call has returned, a row with a recognised context that is
\* neither a metadata row nor a narrative row is among the records exactly
\* if custom_fields is None or names its element identifier.
C20_AllowListDecides ==
    cout = "return"
    => \A r \in InputRecords :
          PlainRow(r)
          => (r.value \in Values(cret.records)
              <=> (custom_fields.given => r.elem \in custom_fields.fields))

\* Under an allow-list one plain row was kept and another was dropped.
C20_Witness ==
    /\ cout = "return"
    /\ custom_fields.given
    /\ \E r \in InputRecords :
          PlainRow(r) /\ r.value \in Values(cret.records)
    /\ \E r \in InputRecords :
          PlainRow(r) /\ r.value \notin Values(cret.records)

\* Every row handed to process_raw_csv_data, in file order and in row order
\* within each file.
RECURSIVE RowsInOrder(_)
RowsInOrder(raw) ==
    IF raw = <<>> THEN <<>> ELSE Head(raw).data \o RowsInOrder(Tail(raw))

\* The translations of the narrative rows among `rows`, in their order.
NarrativeTexts(rows) ==
    LET narrative == SelectSeq(rows, NarrativeRow)
    IN [i \in 1..Len(narrative) |-> Translate(narrative[i].value)]

IsPrefix(s, t) == Len(s) <= Len(t) /\ SubSeq(t, 1, Len(s)) = s

\* C21: every step of a classification leaves business_description with its
\* previous value as a prefix, and when the call returns, the narrative of the
\* metadata is the translated values of the narrative rows, in file order and
\* in row order within each file.
C21_NarrativeOnlyGrows ==
    /\ [][IsPrefix(business_description, business_description')]_vars
    /\ [](cout = "return"
          => cret.business_description
                = NarrativeTexts(RowsInOrder(raw_csv_data)))

\* A document with a narrative row in each of two files was classified.
C21_Witness ==
    /\ cout = "return"
    /\ Len(cret.business_description) = 2
    /\ \E f \in 1..Len(raw_csv_data), g \in 1..Len(raw_csv_data) :
          /\ f < g
          /\ \E i \in 1..Len(raw_csv_data[f].data) :
                NarrativeRow(raw_csv_data[f].data[i])
          /\ \E i \in 1..Len(raw_csv_data[g].data) :
                NarrativeRow(raw_csv_data[g].data[i])

\* The rows with a recognised context that carry the metadata tag, in
\* processing order.
TagRows(tag) ==
    SelectSeq(RowsInOrder(raw_csv_data),
              LAMBDA r : MetaRow(r) /\ r.elem = tag)

\* The value the last-processed occurrence of the tag leaves in a field, None
\* when the tag does not occur.
LastValue(tag) ==
    IF TagRows(tag) = <<>> THEN NullValue
    ELSE StrValue(TagRows(tag)[Len(TagRows(tag))].value)

\* C22: when the call has returned, each metadata field holds the value of
\* the last-processed row (file order, then row order) that has the field's
\* tag and a recognised context, and is None when there is no such row.
C22_LastWriteWins ==
    cout = "return"
    => \A tag \in META_PATTERNS : cret.metadata[tag] = LastValue(tag)

\* What the code keeps of C22: the fields without a value parser hold the
\* value of the last occurrence, and a tag that does not occur is None in
\* every field.
C22_TextFieldsLastWriteWins ==
    cout = "return"
    => \A tag \in META_PATTERNS :
          (tag \notin PARSED_FIELDS \/ TagRows(tag) = <<>>)
          => cret.metadata[tag] = LastValue(tag)

\* The same text-field tag in two files of a returned document.
C22_TextFieldsWitness ==
    /\ cout = "return"
    /\ \E tag \in META_PATTERNS \ PARSED_FIELDS :
          /\ Len(TagRows(tag)) = 2
          /\ \E f \in 1..Len(raw_csv_data), g \in 1..Len(raw_csv_data) :
                /\ f < g
                /\ Len(raw_csv_data[f].data) = 1
                /\ Len(raw_csv_data[g].data) = 1

\* The place of a file in raw_csv_data, 0 when it is not in it.
FilePlace(filename) ==
    IF \E f \in 1..Len(raw_csv_data) : raw_csv_data[f].filename = filename
    THEN CHOOSE f \in 1..Len(raw_csv_data) :
            raw_csv_data[f].filename = filename
    ELSE 0

\* The place in its file of the row a record was made from.
RowPlace(record) ==
    LET data == raw_csv_data[FilePlace(record.source_file)].data
    IN CHOOSE i \in 1..Len(data) : data[i].value = record.value

\* The records of one file are next to each other, the files come in the
\* order they were processed in, and the records of a file are in the order
\* of its rows.
InFileOrder(records) ==
    \A i \in 1..Len(records), j \in 1..Len(records) :
       i < j
       => /\ FilePlace(records[i].source_file) > 0
          /\ FilePlace(records[i].source_file)
                <= FilePlace(records[j].source_file)
          /\ records[i].source_file = records[j].source_file
             => RowPlace(records[i]) < RowPlace(records[j])

\* C28: the records collected so far, and the returned records, are in file
\* blocks: one block for each file, in processing order, each in row order.
C28_FileBlocksInOrder ==
    /\ InFileOrder(filtered_results \o file_filtered_records)
    /\ InFileOrder(cret.records)

\* Records of two files were returned.
C28_Witness ==
    /\ cout = "return"
    /\ \E i \in 1..Len(cret.records), j \in 1..Len(cret.records) :
          cret.records[i].source_file # cret.records[j].source_file

\* Two records of one file were returned.
C28_RowsWitness ==
    /\ cout = "return"
    /\ \E i \in 1..Len(cret.records), j \in 1..Len(cret.records) :
          /\ i # j
          /\ cret.records[i].source_file = cret.records[j].source_file

\* ----------------------------------------------------- interval list claims
\* C29: when a request for a date is about to be issued, one pause was made
\* after every earlier date of the range, whether that date's try body ran
\* to its end or its except clause ran; no two dates follow each other
\* without a pause.
C29_PauseBetweenDates ==
    /\ lpc = "fetch" => pauses = Len(visited) - 1
    /\ lpc \in {"sleep", "done"} => pauses = Len(visited)

\* The request of the first date failed and the request of the second date
\* is about to be issued.
C29_Witness ==
    /\ lpc = "fetch"
    /\ Len(visited) = 2
    /\ visited[1] \in failedDates
    /\ pauses = 1

\* The number of items a per-date list has for a date.
ItemCount(items, date) ==
    Cardinality({i \in 1..Len(items) : items[i].date = date})

\* C30: the message returned for a range has, for every date of the range,
\* exactly one status_code item and exactly one message item.
C30_OneEntryPerDate ==
    lout = "return"
    => \A d \in date_from..date_end :
          /\ ItemCount(lres.status_code, d) = 1
          /\ ItemCount(lres.message, d) = 1

\* What the code keeps of C30: a date whose request failed, and a date whose
\* entries were filtered without an error, has exactly one item in each.
C30_OneEntryUnlessLateFailure ==
    lout = "return"
    => \A d \in date_from..date_end :
          (\/ d \in failedDates
           \/ \E i \in 1..Len(keptDocs) : keptDocs[i].date = d)
          => /\ ItemCount(lres.status_code, d) = 1
             /\ ItemCount(lres.message, d) = 1

\* ------------------------------------------------------ translator claims
\* C23: a translate call that is over has returned a text and has not
\* raised; BypassTranslator returns the input behind its marker, and when the
\* backend of GoogleTranslator raised at any of its awaits the returned text
\* is the input behind the "Not translated: " marker.
C23_TranslateNeverRaises ==
    tpc = "done"
    => /\ tout = "return"
       /\ constructed = "BypassTranslator"
          => tret = <<"translation disabled: ">> \o input_text
       /\ backendFailed => tret = <<"Not translated: ">> \o input_text
       /\ (constructed = "GoogleTranslator" /\ ~backendFailed)
          => tret = result_text

\* The backend raised while translating a text that is not empty.
C23_Witness ==
    /\ tpc = "done"
    /\ constructed = "GoogleTranslator"
    /\ backendFailed
    /\ input_text # <<>>
    /\ tout = "return"

\* ---------------------------------------------------------- reader claims
\* C26: read_csv_file returns the rows of a file written in an encoding of
\* the fallback list whatever the detector reported: its encoding, another
\* encoding, or nothing.
C26_SameRowsWhateverGuess ==
    rpc = "done" => rret = "rows"

\* What the code keeps of C26: when the detector reports the encoding of
\* the file, the rows of the file are returned.
C26_CorrectGuessReadsRows ==
    (rpc = "done" /\ Codec(detected_encoding) = csv_file.encoding)
    => rret = "rows"

\* The position of a name in the fallback list, 0 when it is not in it.
FallbackPos(name) ==
    IF \E i \in 1..Len(COMMON_ENCODINGS) : COMMON_ENCODINGS[i] = name
    THEN CHOOSE i \in 1..Len(COMMON_ENCODINGS) : COMMON_ENCODINGS[i] = name
    ELSE 0

\* The detected encoding was tried first, the encodings tried after it are
\* encodings of the fallback list in the order of the list, every encoding
\* tried before the last one failed, and a call that is over tried until
\* one read the file or none was left.
TriedInOrder ==
    LET skip == IF detected_encoding # NoneV THEN 1 ELSE 0 IN
    /\ (detected_encoding # NoneV /\ tried # <<>>)
       => tried[1] = detected_encoding
    /\ \A i \in (skip + 1)..Len(tried) : FallbackPos(tried[i]) > 0
    /\ \A i \in (skip + 1)..Len(tried), j \in (skip + 1)..Len(tried) :
          i < j => FallbackPos(tried[i]) < FallbackPos(tried[j])
    /\ \A i \in 1..(Len(tried) - 1) :
          SyncReadCsvWithEncoding(csv_file, tried[i]) = NoneV
    /\ (rpc = "try" /\ tried # <<>>)
       => SyncReadCsvWithEncoding(csv_file, tried[Len(tried)]) = NoneV
    /\ rpc = "done"
       => /\ rout = "return"
          /\ rret = SyncReadCsvWithEncoding(csv_file, tried[Len(tried)])
          /\ rret = NoneV
             => \A i \in 1..Len(COMMON_ENCODINGS) :
                   \E j \in 1..Len(tried) : tried[j] = COMMON_ENCODINGS[i]

\* C27: the detected encoding is tried first, then the encodings of the
\* fallback list in the order of the list; no encoding is tried twice; the
\* first encoding that reads the file ends the call and none is tried after
\* it; detection does not make the call raise.
C27_CandidatesInOrderOnce ==
    /\ TriedInOrder
    /\ \A i \in 1..Len(tried), j \in 1..Len(tried) :
          i < j => Codec(tried[i]) # Codec(tried[j])

\* What the code keeps of C27: the order, the stop at the first encoding
\* that reads the file, and no name tried twice.
C27_NamesInOrderOnce ==
    /\ TriedInOrder
    /\ \A i \in 1..Len(tried), j \in 1..Len(tried) :
          i < j => tried[i] # tried[j]

\* The detector reported utf-8 for a file that utf-8 does not read, and the
\* fallback list was tried past the place of utf-8.
C27_NamesWitness ==
    /\ rpc = "done"
    /\ detected_encoding = "utf-8"
    /\ Len(tried) > 5
    /\ rret = "rows"

\* ------------------------------------------------ concurrent call claims
\* The call run alone: the awaits that are no client.get complete one after
\* the other until the call is at a client.get or over.
RECURSIVE Settle(_, _)
Settle(call, f) ==
    IF f.pc \in ResumePoints(call) THEN Settle(call, Resume(call, f)) ELSE f

\* The call run alone from locals f against the answers, in order.
RECURSIVE Replay(_, _, _, _)
Replay(call, f, answers, attempts) ==
    IF answers = <<>> \/ f.pc # "fetch" THEN f
    ELSE Replay(call,
                Settle(call, Receive(call, f, Head(answers), attempts)),
                Tail(answers), attempts)

RunAlone(call, answers, attempts) ==
    Replay(call, Settle(call, StartLocals(call)), answers, attempts)

C25_ConnectionsBounded ==
    /\ inUse + keptAlive <= max_connections
    /\ keptAlive <= max_keepalive_connections

\* The bounds as the code sets them: on the client of each call, which never
\* holds more than one connection.
C25_ClientsWithinMaxCalls ==
    /\ clients + inUse + keptAlive <= MaxCalls
    /\ clients >= 0 /\ inUse >= 0 /\ keptAlive >= 0

\* ------------------------------------------------------ read stage claims
\* The results that gave records, in the order of the tasks, each labelled
\* with the file its task read.
RECURSIVE ReadOrigins(_)
ReadOrigins(rs) ==
    IF rs = <<>> THEN <<>>
    ELSE (IF Head(rs).data \in {"data", "badrow"}
          THEN <<[filename |-> Head(rs).file, data |-> Head(rs).data]>>
          ELSE <<>>)
         \o ReadOrigins(Tail(rs))

\* C31: every row set collected by process_zip_file is labelled with the
\* name of the file it was read from, in whatever order the concurrent reads
\* completed and wherever auditor files sit among the discovered files.
C31_RowSetsKeepTheirFileName ==
    (dpc = "classify" \/ rawList # <<>>) =>
        rawList = ReadOrigins(readResults)

\* The rows of a file discovered after an auditor file were collected.
C31_Witness ==
    /\ dpc = "classify"
    /\ archive.files = <<"jpaud", "data">>
    /\ rawList = <<[filename |-> 2, data |-> "data"]>>

\* The read of the second file completed before the read of the first.
C31_OutOfOrderWitness ==
    /\ dpc = "read"
    /\ Len(readResults) = 2
    /\ readResults[1] = Pending
    /\ readResults[2] # Pending

\* ------------------------------------------------- result message claims
\* C32: an ExtractDocMessage returned with extract_status "fail" has no
\* results and total_csv_files 0, and one returned with "success" holds the
\* outcome of a classification that went through every collected row set.
C32_FailHasNoRecords ==
    dout = "return" =>
        /\ dres.extract_status \in {"fail", "success"}
        /\ dres.extract_status = "fail" =>
               dres.results = <<>> /\ dres.total_csv_files = 0
        /\ dres.extract_status = "success" =>
               /\ \A i \in 1..Len(rawList) : rawList[i].data = "data"
               /\ dres.results = FileNames(rawList)
               /\ dres.total_csv_files = Len(rawList)

\* Classification raised on the second of two collected row sets, and the
\* message returned is a failure.
C32_Witness ==
    /\ dout = "return"
    /\ dres.extract_status = "fail"
    /\ Len(rawList) = 2
    /\ rawList[1].data = "data"
    /\ rawList[2].data = "badrow"

\* ------------------------------------------------- all-or-nothing claims
\* The row has a recognised context identifier and lacks its element
\* identifier or its unit identifier.
InvalidRow(r) ==
    KnownContext(r) /\ (r.elem = NoneCell \/ r.unit = NoneCell)

\* C33: classification is all-or-nothing: process_raw_csv_data raises, and
\* returns nothing of what it collected, exactly when some row with a
\* recognised context identifier fails record validation; process_zip_file
\* then returns a "fail" message without results.
C33_ClassificationAllOrNothing ==
    /\ cpc = "done" =>
          /\ cout = "raise" <=> \E r \in InputRecords : InvalidRow(r)
          /\ cout = "raise" => cret = NoClassifyResult
    /\ (/\ dpc = "done"
        /\ interrupted = "none"
        /\ \E i \in 1..Len(rawList) : rawList[i].data = "badrow") =>
          /\ dout = "return"
          /\ dres.extract_status = "fail"
          /\ dres.results = <<>>
          /\ dres.total_csv_files = 0

\* The call raised on a row of the second file after the records of the
\* first file had been collected.
C33_Witness ==
    /\ cpc = "done"
    /\ cout = "raise"
    /\ fileIdx = 2
    /\ filtered_results # <<>>
    /\ cret = NoClassifyResult

\* ------------------------------------------------------ date loop claims
\* The calendar days from first to last, in order; none if first is later.
Days(first, last) ==
    IF first > last THEN <<>>
    ELSE [i \in 1..(last - first + 1) |-> first + i - 1]

\* An upper bound of the steps the running date loop has left: the days not
\* yet done, each with its attempts, its filtering and its pause.
ListStepsLeft ==
    IF lpc \notin {"fetch", "filter", "sleep"} THEN 0
    ELSE (date_end - date_cursor) * (retry_attempts + 3)
         + (CASE lpc = "fetch" -> (retry_attempts - listRequests) + 2
              [] lpc = "filter" -> 2
              [] lpc = "sleep" -> 1)

\* C34: fetch_date_interval_doc_list terminates (every step of the running
\* call lowers a bound on the steps that are left, and the bound is never
\* negative); when it is over a _fetch_list call was made for exactly the
\* days from date_from to date_to, each once and in order; and with
\* date_from later than date_to no request was made and an empty message
\* with count 0 is returned.
C34_DateLoopTerminates ==
    /\ [][(lpc \in {"fetch", "filter", "sleep"}) =>
              (ListStepsLeft' < ListStepsLeft)]_listVars
    /\ [](ListStepsLeft >= 0)
    /\ [](lpc = "done" => visited = Days(date_from, date_end))
    /\ [](lpc = "done" /\ date_from > date_end =>
             /\ lastListResp = NoListResp
             /\ lout = "return"
             /\ lres = MultiMessage(EmptyRes)
             /\ lres.count = 0)

\* A call over two days is over, the first day having failed.
C34_Witness ==
    /\ lpc = "done"
    /\ date_from = 1
    /\ date_end = 2
    /\ visited = <<1, 2>>
    /\ 1 \in failedDates

\* A call with date_from later than date_to is over.
C34_EmptyRangeWitness ==
    /\ lpc = "done"
    /\ date_from > date_end
    /\ lout = "return"

C35_FailCarriesMessageUnlessInterrupted ==
    (dpc = "done" /\ dout = "return" /\ dres.extract_status = "fail"
        /\ interrupted # "KeyboardInterrupt")
        => dres.extract_message # NoneV

\* ------------------------------------------------------ allow-list claims
\* What a classification has gathered besides the generic records.
Gathered(out, container, description, translated) ==
    [out |-> out, container |-> container, description |-> description,
     translated |-> translated]

\* process_raw_csv_data run over `rows` with the allow-list cf, from what
\* was gathered so far: the outcome, the metadata container, the narrative
\* and the values handed to the translator.
RECURSIVE Classified(_, _, _)
Classified(rows, cf, acc) ==
    IF rows = <<>> \/ acc.out = "raise" THEN acc
    ELSE LET record == Head(rows)
             class == RowClass(record, cf)
         IN Classified(Tail(rows), cf,
               Gathered(IF class = "raise" THEN "raise" ELSE acc.out,
                        IF class = "meta"
                        THEN SetItem(acc.container, record.elem, record.value)
                        ELSE acc.container,
                        IF class = "narrative"
                        THEN Accumulate(acc.description,
                                        Translate(record.value))
                        ELSE acc.description,
                        IF class = "narrative"
                        THEN Append(acc.translated, record.value)
                        ELSE acc.translated))

ClassifiedWith(cf) ==
    Classified(RowsInOrder(raw_csv_data), cf,
               Gathered("return", EmptyContainer, <<>>, <<>>))

\* C36: when process_raw_csv_data is over, its outcome, its translation
\* calls, the metadata values and the narrative it returns are those of the
\* same rows classified with any other allow-list (none, the empty list, or
\* a list of identifiers).
C36_AllowListLeavesMetadataAlone ==
    cpc = "done" =>
        \A cf \in CustomFieldChoices :
            /\ ClassifiedWith(cf).out = cout
            /\ ClassifiedWith(cf).translated = translateCalls
            /\ cout = "return" =>
                  /\ cret.metadata
                        = MetadataExtract(ClassifiedWith(cf).container)
                  /\ cret.business_description
                        = ClassifiedWith(cf).description

\* A call with the empty allow-list returned a metadata value and a
\* narrative and dropped nothing else, or returned a narrative and dropped a
\* plain row that a call without a list keeps.
C36_Witness ==
    /\ cout = "return"
    /\ custom_fields = CustomFields(TRUE, {})
    /\ cret.records = <<>>
    /\ translateCalls # <<>>
    /\ \E r \in InputRecords :
          \/ RowClass(r, CustomFields(FALSE, {})) = "keep"
          \/ RowClass(r, custom_fields) = "meta"

\* ------------------------------------------------ absorbed failure claims
\* The finished fetch_single_doc_list call met a failure inside its try
\* statement: the last _fetch_list attempt raised, or the listing was
\* received and filtering its entries or reading its metadata raised.
SingleFailed ==
    \/ lastSingleAttempt.kind = "raise"
    \/ /\ lastSingleAttempt.kind = "return"
       /\ \/ FilterDocs(IF single_raw.hasResults THEN single_raw.docs
                         ELSE <<>>).kind = "raise"
          \/ ~single_raw.metaOk

\* C37: a fetch_single_doc_list call that absorbed a failure returns a
\* message with status_code 500, no fetch_status, no count and no results,
\* whatever the failure was.
C37_AbsorbedFailureMessage ==
    (spc = "done" /\ single_date # BadDate /\ SingleFailed)
    => /\ sout = "return"
       /\ sres.status_code = 500
       /\ sres.fetch_status = NoStatus
       /\ sres.count = NoStatus
       /\ sres.results = <<>>

\* A listing answered with 200 whose entries fail validation was absorbed.
C37_Witness ==
    /\ spc = "done"
    /\ lastSingleAttempt.kind = "return"
    /\ lastSingleResp.status = SUCCESS
    /\ FilterDocs(IF single_raw.hasResults THEN single_raw.docs
                  ELSE <<>>).kind = "raise"
    /\ sres.status_code = 500
    /\ sres.count = NoStatus

\* A rate-limit answer was absorbed.
C37_RateLimitWitness ==
    /\ spc = "done"
    /\ lastSingleResp.transport = "ok"
    /\ lastSingleResp.status = RATE_LIMIT_ERROR
    /\ sres.status_code = 500
    /\ sres.count = NoStatus

\* -------------------------------------------------- filer-name translation
\* C38: when _filter_docs has returned, every _translate task is done and
\* each returned entry has filer_name_eng set to the translation of its own
\* filer_name, whatever the order the tasks completed in.
C38_EveryFilerNameTranslated ==
    (fpc = "done" /\ fout = "return")
    => /\ Len(finished) = Len(filtered)
       /\ \A k \in 1..Len(filtered) :
             /\ translations[k] = "done"
             /\ filtered[k].filer_name_eng
                   = <<Translate(filtered[k].filer_name)>>

\* _filter_docs returned two entries of different filers whose second
\* translation completed first.
C38_Witness ==
    /\ fpc = "done"
    /\ fout = "return"
    /\ finished = <<2, 1>>
    /\ filtered[1].filer_name # filtered[2].filer_name

====
